---------------------------- MODULE Spec2Model ----------------------------
(***************************************************************************)
(* Model of the etiql-golangAPI analytics service.                         *)
(*                                                                         *)
(*  - getSkuMetricsSingle (src/sku_metrics_single.go): the SQL statement   *)
(*    that reconciles inventory, purchased, sold and open-order facts per  *)
(*    (style, size), followed by the row loop and the HTTP answer.         *)
(*  - getPurchaseOrders / transformOrderFromItems (src/unnamed/part_000):  *)
(*    grouping of flat order rows into nested orders.                      *)
(*  - the server of src/main.go: concurrent requests of getSkuMetrics,     *)
(*    getSkuMetricsSingle, getPurchaseOrders (src/purchase_orders.go and   *)
(*    its part_000 revision) and getAllPurchaseOrders (part_003).          *)
(*  - the bearer-token middleware and loadEnvFile of src/main.go, and the  *)
(*    origin gate of src/unnamed/part_002.                                 *)
(*                                                                         *)
(* The warehouse tables are state: the environment inserts rows while no   *)
(* request is running, and a request reads the snapshot it finds.  SQL     *)
(* NULL is the string NULL for text columns; a nullable number is a        *)
(* sequence of at most one element.                                        *)
(***************************************************************************)
EXTENDS Integers, Sequences, FiniteSets, Bags, TLC

VARIABLES
    inventoryRows,   \* bag: stg_xentral__inventory joined to the variant (latest date)
    purchaseRows,    \* bag: stg_xentral__purchase_order_details (future deliveries)
    ordersItemRows,      \* bag: stg_shopify__orders_items joined to the variant (24 months)
    openOrderRows,   \* bag: stg_xentral__open_orders (product_sku not null, recent)
    productRows,     \* set: stg_xentral__products (catalog)
    mpc,             \* getSkuMetricsSingle: "idle", "iter", "done"
    skuId,           \* c.Param("sku_id") of the running request
    pending,         \* rows of the query result the iterator has not delivered yet
    results,         \* var results []map[string]interface{}
    lastErr,         \* the last error of query.Read / it.Next: "nil", "read", "done", "iter"
    resp,            \* the HTTP response written by the handler, or NoResponse
    labels,          \* a column of size labels handed to the CASE expression
    once,            \* the column after one application of the CASE expression
    twice,           \* the column after a second application
    npc,             \* "input", "once", "twice"
    delivered,       \* rows it.Next has handed to getPurchaseOrders, in order
    orderMap,        \* map[int64]map[string][]BigQueryOrderItem
    opc,             \* getPurchaseOrders: "idle", "iter", "done"
    poErr,           \* the last error of query.Read / it.Next in getPurchaseOrders
    poResp,          \* the HTTP response of getPurchaseOrders, or NoResponse
    bqClient,        \* the package variable bqClient: "nil" or "client"
    purchaseOrders,  \* set: agent.purchase_orders, one row per order with its items array
    skuSizesMetrics, \* set: the rows of the view agent.sku_sizes_metrics
    route,           \* per request: the handler the router dispatched it to, or "none"
    param,           \* per request: c.Param("sku_id")
    hpc,             \* per request: "idle", "iter", "done"
    rowIter,         \* per request: the rows the iterator has not delivered yet
    fetched,         \* per request: the rows it.Next has delivered, in order
    local,           \* per invocation: the handler's local results / orderMap
    herr,            \* per request: the last error of query.Read / it.Next
    sent,            \* per request: the responses written with c.JSON, in order
    apiToken,        \* os.Getenv("API_TOKEN") of the running server
    aStage,          \* the request at the middleware: "boot", "none", "arrived", "aborted", "handler", "done"
    aPath,           \* c.Request.URL.Path
    authHeader,      \* c.GetHeader("Authorization")
    aResp,           \* the response written by the middleware or the root handler, or NoResponse
    handled,         \* the route handler of the request has run
    environ,         \* the process environment as os.Getenv sees it: "" for an unset or empty variable
    envBefore,       \* the environment at the call of loadEnvFile
    dotenvExists,    \* a file .env exists in the working directory
    dotenv,          \* the lines of .env, in order
    lpc,             \* "setup" before main calls loadEnvFile, "loaded" after it returned
    envMode,         \* os.Getenv("ENV") when main installs the middleware
    gStage,          \* the request at the gate: "boot", "none", "arrived", "aborted", "cors", "rejected", "handler", "done"
    gPath,           \* c.Request.URL.Path
    origin,          \* c.GetHeader("Origin")
    referer,         \* c.GetHeader("Referer")
    gResp,           \* the response written by the gate, the CORS middleware or the root handler
    gHandled         \* the route handler of the request has run

metricsVars == <<inventoryRows, purchaseRows, ordersItemRows, openOrderRows, productRows,
                 mpc, skuId, pending, results, lastErr, resp>>

normVars == <<labels, once, twice, npc>>

ordersVars == <<delivered, orderMap, opc, poErr, poResp>>

serverVars == <<bqClient, purchaseOrders, skuSizesMetrics, route, param, hpc, rowIter,
                fetched, local, herr, sent>>

\* the bearer-token middleware of src/main.go
authVars == <<apiToken, aStage, aPath, authHeader, aResp, handled>>

\* loadEnvFile of src/main.go and the process environment
envVars == <<environ, envBefore, dotenvExists, dotenv, lpc>>

\* the origin gate of src/unnamed/part_002
gateVars == <<envMode, gStage, gPath, origin, referer, gResp, gHandled>>

vars == <<metricsVars, normVars, ordersVars, serverVars, authVars, envVars, gateVars>>

\* what the steps of the metrics handler and of the warehouse leave alone
nonMetricsVars == <<normVars, ordersVars, serverVars, authVars, envVars, gateVars>>

\* what the steps on a column of size labels leave alone
nonNormVars == <<metricsVars, ordersVars, serverVars, authVars, envVars, gateVars>>

\* what the steps of getPurchaseOrders leave alone
nonOrdersVars == <<metricsVars, normVars, serverVars, authVars, envVars, gateVars>>

\* what the steps of the server's requests leave alone
nonServerVars == <<metricsVars, normVars, ordersVars, authVars, envVars, gateVars>>

\* what the steps of the bearer-token middleware of src/main.go leave alone
nonAuthVars == <<metricsVars, normVars, ordersVars, serverVars, envVars, gateVars>>

\* what the steps of loadEnvFile of src/main.go and the process environment leave alone
nonEnvVars == <<metricsVars, normVars, ordersVars, serverVars, authVars, gateVars>>

\* what the steps of the origin gate of src/unnamed/part_002 leave alone
nonGateVars == <<metricsVars, normVars, ordersVars, serverVars, authVars, envVars>>

---------------------------------------------------------------------------
(* Bounds of the model. *)

MaxRows == 2          \* rows the warehouse holds, all tables together
MaxLabels == 2        \* size labels in a column handed to the CASE expression
MaxOrderRows == 3     \* rows the purchase-orders query returns
MaxLines == 2         \* lines of the file .env

NULL == "<NULL>"      \* SQL NULL of a text column

StyleA == "ABC123456"
StyleB == "XYZ987654"
Styles == {StyleA, StyleB}

\* size suffixes of a variant sku (SUBSTRING(sku, 10)); "" is a sku of nine characters
SizeSuffixes == {"", "385", "38.5", "10"}
\* size column of the variant / purchase-order tables, which may be NULL
SizeColumns == SizeSuffixes \cup {NULL}

Qtys == {1, 2}
ProductIds == {501, 502}
\* (year, month) of an order item inside the 24-month window; January occurs twice
EventPeriods == {<<2024, "January">>, <<2025, "January">>, <<2025, "February">>}

\* The rows the warehouse may hold.  Style A is covered in full; style B has one
\* row shape per table, enough to put rows of another style beside the requested one.
InventoryDomain ==
    {[base_sku |-> StyleA, size |-> z, quantity |-> q] : z \in SizeColumns, q \in Qtys}
    \cup {[base_sku |-> StyleB, size |-> "385", quantity |-> 1]}

\* purchase_order_details rows have the same columns
PurchaseDomain == InventoryDomain

OrderItemDomain ==
    {[base_sku |-> StyleA, sku |-> StyleA \o z, year |-> e[1], month_name |-> e[2],
      quantity |-> q] : z \in SizeSuffixes, e \in EventPeriods, q \in Qtys}
    \cup {[base_sku |-> StyleB, sku |-> StyleB \o "385", year |-> 2025,
           month_name |-> "January", quantity |-> 1]}

OpenOrderDomain ==
    {[product_sku |-> StyleA \o z] : z \in SizeSuffixes}
    \cup {[product_sku |-> StyleB \o "385"]}

ProductDomain ==
    {[sku |-> StyleA \o z, id |-> id] : z \in SizeSuffixes, id \in ProductIds}

Months == {"January", "February", "March", "April", "May", "June", "July",
           "August", "September", "October", "November", "December"}

\* size labels: the four half-size codes, their decimal forms, and labels the
\* CASE expression has no branch for
SizeLabels == {"385", "395", "425", "435", "38.5", "39.5", "42.5", "43.5",
               "10", "38", "3855", "M", ""}

\* FORMAT_DATE('%Y-%m-%d', CURRENT_DATE()) on the day of the request
Today == "2025-01-10"

OrderIds == {1, 2}
\* delivery_date is a text column: a date before today, two calendar dates from
\* today on, a day that does not exist, text that is no date, and the empty string
DeliveryDates == {"2024-12-31", "2025-01-10", "2025-02-01", "2025-02-30", "not-a-date", ""}
\* product, size and quantity of an unnested item
ItemShapes ==
    {[ProductID |-> 500, SKU |-> "ABC123456385", Size |-> "385", Quantity |-> 2],
     [ProductID |-> 501, SKU |-> "ABC12345610", Size |-> "10", Quantity |-> 1],
     [ProductID |-> 0, SKU |-> "", Size |-> "10", Quantity |-> 3],
     [ProductID |-> 500, SKU |-> "ABC123456385", Size |-> "385", Quantity |-> 0]}

\* the rows of agent.purchase_orders, UNNEST(items)
OrderRowDomain ==
    {[ID |-> id, DeliveryDate |-> d, ProductID |-> it.ProductID, SKU |-> it.SKU,
      Size |-> it.Size, Quantity |-> it.Quantity]
     : id \in OrderIds, d \in DeliveryDates, it \in ItemShapes}

NoResponse == [status |-> 0, body |-> <<>>, headers |-> {}]

\* the environment variables main reads
EnvNames == {"API_TOKEN", "ENV"}

\* the requests the server handles, each in a goroutine of its own
Requests == {"r1", "r2"}

\* the rows of agent.purchase_orders: an order with a product and an item without,
\* a past order, an order whose only item has no product, an order of quantity 0
PurchaseOrderDomain ==
    {[id |-> 1, delivery_date |-> "2025-02-01",
      items |-> <<[product_id |-> 500, sku |-> "ABC123456385", size |-> "385", quantity |-> 2],
                  [product_id |-> 0, sku |-> "", size |-> "10", quantity |-> 3]>>],
     [id |-> 2, delivery_date |-> "2024-12-31",
      items |-> <<[product_id |-> 501, sku |-> "ABC12345610", size |-> "10", quantity |-> 1]>>],
     [id |-> 2, delivery_date |-> "2025-01-10",
      items |-> <<[product_id |-> 0, sku |-> "", size |-> "10", quantity |-> 3]>>],
     [id |-> 1, delivery_date |-> "2025-01-10",
      items |-> <<[product_id |-> 500, sku |-> "ABC123456385", size |-> "385", quantity |-> 0]>>]}

\* the rows of the view agent.sku_sizes_metrics (four of its thirty columns)
SkuSizesMetricsDomain ==
    {[sku |-> StyleA, size |-> "38.5", available_count |-> 1, product_id |-> 501],
     [sku |-> StyleB, size |-> "10", available_count |-> 0, product_id |-> 502]}

---------------------------------------------------------------------------
(* SQL helpers. *)

\* SUBSTRING(s, pos): the characters of s from position pos (1-based) on
Substring(s, pos) == SubSeq(s, pos, Len(s))

\* SUBSTRING(s, pos, len)
SubstringLen(s, pos, n) == SubSeq(s, pos, IF pos + n - 1 < Len(s) THEN pos + n - 1 ELSE Len(s))

\* mutant of SqlEq: any two values that are not NULL pass the comparison
SqlEqLoose(a, b) == a # NULL /\ b # NULL

\* a = b in an ON or WHERE clause: never true when a side is NULL
SqlEq(a, b) == a # NULL /\ b # NULL /\ a = b

RECURSIVE SumOver(_, _)
\* SUM(f) over the rows of a bag, each row counted as often as it occurs
SumOver(B, S) ==
    IF S = {} THEN 0
    ELSE LET r == CHOOSE x \in S : TRUE
         IN  r.quantity * CopiesIn(r, B) + SumOver(B, S \ {r})

SumQuantity(B, S) == SumOver(B, S)

RECURSIVE MaxOver(_, _)
\* MAX(v) over a non-empty set of numbers
MaxOver(S, best) ==
    IF S = {} THEN best
    ELSE LET v == CHOOSE x \in S : TRUE
         IN  MaxOver(S \ {v}, IF v > best THEN v ELSE best)

MaxOf(S) == LET v == CHOOSE x \in S : TRUE IN MaxOver(S \ {v}, v)


---------------------------------------------------------------------------
(* The SQL statement of getSkuMetricsSingle, one operator per CTE.  p is   *)
(* the query parameter @sku_id.                                            *)

\* GROUP BY sku, size with SUM(quantity) over a bag of (base_sku, size, quantity) rows
GroupSum(B, p) ==
    LET rows == {r \in BagToSet(B) : SqlEq(r.base_sku, p)}
        keys == {<<r.base_sku, r.size>> : r \in rows}
    IN  {[sku |-> k[1], size |-> k[2],
          total |-> SumQuantity(B, {r \in rows : r.base_sku = k[1] /\ r.size = k[2]})]
         : k \in keys}

inventory_metrics(p) ==
    {[sku |-> g.sku, size |-> g.size, available_count |-> g.total]
     : g \in GroupSum(inventoryRows, p)}

purchased_items(p) ==
    {[sku |-> g.sku, size |-> g.size, purchased_count |-> g.total]
     : g \in GroupSum(purchaseRows, p)}

sold_items_total(p) ==
    LET rows == {r \in BagToSet(ordersItemRows) : SqlEq(r.base_sku, p)}
        keys == {<<r.base_sku, Substring(r.sku, 10)>> : r \in rows}
    IN  {[sku |-> k[1], size |-> k[2],
          total_sold |-> SumQuantity(ordersItemRows,
                {r \in rows : r.base_sku = k[1] /\ Substring(r.sku, 10) = k[2]})]
         : k \in keys}

sold_items_monthly(p) ==
    LET rows == {r \in BagToSet(ordersItemRows) : SqlEq(r.base_sku, p)}
        keys == {<<r.base_sku, Substring(r.sku, 10), r.year, r.month_name>> : r \in rows}
    IN  {[sku |-> k[1], size |-> k[2], year |-> k[3], month_name |-> k[4],
          monthly_sold |-> SumQuantity(ordersItemRows,
                {r \in rows : /\ r.base_sku = k[1]
                              /\ Substring(r.sku, 10) = k[2]
                              /\ r.year = k[3]
                              /\ r.month_name = k[4]})]
         : k \in keys}

\* MAX(CASE WHEN month_name = m THEN monthly_sold ELSE 0 END) over one (sku, size) group
PivotBucket(group, m) ==
    MaxOf({IF r.month_name = m THEN r.monthly_sold ELSE 0 : r \in group})

sold_items_monthly_pivot(p) ==
    LET monthly == sold_items_monthly(p)
        keys == {<<r.sku, r.size>> : r \in monthly}
    IN  {[sku |-> k[1], size |-> k[2],
          sold |-> [m \in Months |->
                      PivotBucket({r \in monthly : r.sku = k[1] /\ r.size = k[2]}, m)]]
         : k \in keys}

open_orders(p) ==
    LET rows == {r \in BagToSet(openOrderRows) :
                    /\ r.product_sku # NULL
                    /\ SqlEq(SubstringLen(r.product_sku, 1, 9), p)}
        keys == {<<SubstringLen(r.product_sku, 1, 9), Substring(r.product_sku, 10)>>
                 : r \in rows}
    IN  {[base_sku |-> k[1], size |-> k[2],
          quantity |-> BagCardinality(
                [r \in {x \in rows : /\ SubstringLen(x.product_sku, 1, 9) = k[1]
                                       /\ Substring(x.product_sku, 10) = k[2]}
                   |-> CopiesIn(r, openOrderRows)])]
         : k \in keys}

\* SELECT DISTINCT sku, size over the four sources, WHERE size IS NOT NULL
all_sizes(p) ==
    {[sku |-> r.sku, size |-> r.size] :
        r \in {x \in inventory_metrics(p) : x.size # NULL}}
    \cup {[sku |-> r.sku, size |-> r.size] :
        r \in {x \in purchased_items(p) : x.size # NULL}}
    \cup {[sku |-> r.sku, size |-> r.size] :
        r \in {x \in sold_items_total(p) : x.size # NULL}}
    \cup {[sku |-> r.base_sku, size |-> r.size] :
        r \in {x \in open_orders(p) : x.size # NULL}}

\* mutant of NormalizeSize: the second branch repeats the result of the first
NormalizeSizeCopied(size) ==
    CASE size = "385" -> "38.5"
      [] size = "395" -> "38.5"
      [] size = "425" -> "42.5"
      [] size = "435" -> "43.5"
      [] OTHER -> size

\* the CASE expression of the final SELECT
NormalizeSize(size) ==
    CASE size = "385" -> "38.5"
      [] size = "395" -> "39.5"
      [] size = "425" -> "42.5"
      [] size = "435" -> "43.5"
      [] OTHER -> size

\* mutant of LeftJoin: an inner join, which loses the row when nothing matches
LeftJoinInner(matches) == {<<x>> : x \in matches}

\* LEFT JOIN: the matching rows, or one all-NULL row (the empty sequence) when none match
LeftJoin(matches) == IF matches = {} THEN {<<>>} ELSE {<<x>> : x \in matches}

\* COALESCE(x.field, 0)
Coalesce0(opt, field) == IF opt = <<>> THEN 0 ELSE opt[1][field]

\* the final SELECT DISTINCT ... FROM all_sizes a LEFT JOIN ... WHERE a.sku = @sku_id
MetricsQuery(p) ==
    LET inv == inventory_metrics(p)
        pur == purchased_items(p)
        tot == sold_items_total(p)
        piv == sold_items_monthly_pivot(p)
        opn == open_orders(p)
        Row(a, i, pu, st, sm, o, pr) ==
            [sku |-> a.sku,
             product_id |-> IF pr = <<>> THEN <<>> ELSE <<pr[1].id>>,
             size |-> NormalizeSize(a.size),
             available_count |-> Coalesce0(i, "available_count"),
             purchased_count |-> Coalesce0(pu, "purchased_count"),
             sold_last_24_months |-> Coalesce0(st, "total_sold"),
             sold |-> [m \in Months |-> IF sm = <<>> THEN 0 ELSE sm[1].sold[m]],
             open_orders_quantity |-> Coalesce0(o, "quantity")]
        RowsOf(a) ==
            {Row(a, i, pu, st, sm, o, pr) :
                i \in LeftJoin({x \in inv : SqlEq(a.sku, x.sku) /\ SqlEq(a.size, x.size)}),
                pu \in LeftJoin({x \in pur : SqlEq(a.sku, x.sku) /\ SqlEq(a.size, x.size)}),
                st \in LeftJoin({x \in tot : SqlEq(a.sku, x.sku) /\ SqlEq(a.size, x.size)}),
                sm \in LeftJoin({x \in piv : SqlEq(a.sku, x.sku) /\ SqlEq(a.size, x.size)}),
                o \in LeftJoin({x \in opn : SqlEq(a.sku, x.base_sku) /\ SqlEq(a.size, x.size)}),
                pr \in LeftJoin({x \in productRows : SqlEq(a.sku \o a.size, x.sku)})}
    IN  UNION {RowsOf(a) : a \in {x \in all_sizes(p) : SqlEq(x.sku, p)}}

---------------------------------------------------------------------------
(* The warehouse: rows arrive while no request is running. *)

TotalRows ==
    BagCardinality(inventoryRows) + BagCardinality(purchaseRows)
    + BagCardinality(ordersItemRows) + BagCardinality(openOrderRows)
    + Cardinality(productRows)
    + Cardinality(purchaseOrders) + Cardinality(skuSizesMetrics)

\* no request has been dispatched yet
ServerIdle == \A r \in Requests : route[r] = "none"

CanInsert == mpc = "idle" /\ ServerIdle /\ TotalRows < MaxRows

InsertInventory ==
    /\ CanInsert
    /\ \E row \in InventoryDomain :
          inventoryRows' = inventoryRows (+) SetToBag({row})
    /\ UNCHANGED <<purchaseRows, ordersItemRows, openOrderRows, productRows,
                   mpc, skuId, pending, results, lastErr, resp>>
    /\ UNCHANGED nonMetricsVars

InsertPurchase ==
    /\ CanInsert
    /\ \E row \in PurchaseDomain :
          purchaseRows' = purchaseRows (+) SetToBag({row})
    /\ UNCHANGED <<inventoryRows, ordersItemRows, openOrderRows, productRows,
                   mpc, skuId, pending, results, lastErr, resp>>
    /\ UNCHANGED nonMetricsVars

\* an order item of a variant whose sku is the style followed by the size suffix
InsertOrderItem ==
    /\ CanInsert
    /\ \E row \in OrderItemDomain :
          ordersItemRows' = ordersItemRows (+) SetToBag({row})
    /\ UNCHANGED <<inventoryRows, purchaseRows, openOrderRows, productRows,
                   mpc, skuId, pending, results, lastErr, resp>>
    /\ UNCHANGED nonMetricsVars

InsertOpenOrder ==
    /\ CanInsert
    /\ \E row \in OpenOrderDomain :
          openOrderRows' = openOrderRows (+) SetToBag({row})
    /\ UNCHANGED <<inventoryRows, purchaseRows, ordersItemRows, productRows,
                   mpc, skuId, pending, results, lastErr, resp>>
    /\ UNCHANGED nonMetricsVars

\* a row arrives in stg_xentral__products; nothing makes its sku or its id unique
InsertProduct ==
    /\ CanInsert
    /\ \E row \in ProductDomain :
          productRows' = productRows \cup {row}
    /\ UNCHANGED <<inventoryRows, purchaseRows, ordersItemRows, openOrderRows,
                   mpc, skuId, pending, results, lastErr, resp>>
    /\ UNCHANGED nonMetricsVars

---------------------------------------------------------------------------
(* getSkuMetricsSingle, src/sku_metrics_single.go 12-218. *)

tables == <<inventoryRows, purchaseRows, ordersItemRows, openOrderRows, productRows>>

Response(status, body, headers) == [status |-> status, body |-> body, headers |-> headers]

CacheHeader == [name |-> "Cache-Control", value |-> "private, max-age=300"]

\* lines 13-19: an empty sku_id is answered 400
MetricsBadRequest ==
    /\ mpc = "idle"
    /\ skuId' = ""
    /\ resp' = Response(400, [error |-> "SKU ID is required"], {})
    /\ mpc' = "done"
    /\ UNCHANGED <<tables, pending, results, lastErr>>
    /\ UNCHANGED nonMetricsVars

\* lines 167-175: query.Read fails
MetricsQueryFail ==
    /\ mpc = "idle"
    /\ \E p \in Styles :
          /\ skuId' = p
          /\ resp' = Response(500, [error |-> "Failed to query BigQuery",
                                     details |-> "query error"], {})
    /\ lastErr' = "read"
    /\ mpc' = "done"
    /\ UNCHANGED <<tables, pending, results>>
    /\ UNCHANGED nonMetricsVars

\* lines 25-167, 177-178: query.Read succeeds; the iterator holds the statement's rows
MetricsQueryRead ==
    /\ mpc = "idle"
    /\ \E p \in Styles :
          /\ skuId' = p
          /\ pending' = MetricsQuery(p)
    /\ results' = <<>>
    /\ mpc' = "iter"
    /\ UNCHANGED <<tables, lastErr, resp>>
    /\ UNCHANGED nonMetricsVars

\* mutant of MetricsAnswer: the empty-result check is missing
MetricsAnswerNo404(res) == Response(200, res, {CacheHeader})

\* lines 208-217: the answer written after the loop
MetricsAnswer(res) ==
    IF Len(res) = 0
    THEN Response(404, [error |-> "SKU not found", sku |-> skuId], {})
    ELSE Response(200, res, {CacheHeader})

\* lines 179-203: it.Next delivers a row (the statement has no ORDER BY: any row)
MetricsNextRow ==
    /\ mpc = "iter"
    /\ \E row \in pending :
          /\ results' = Append(results, row)
          /\ pending' = pending \ {row}
    /\ UNCHANGED <<tables, mpc, skuId, lastErr, resp>>
    /\ UNCHANGED nonMetricsVars

\* lines 182-186, 205-217: iterator.Done ends the loop and the answer is written
MetricsIterDone ==
    /\ mpc = "iter"
    /\ pending = {}
    /\ lastErr' = "done"
    /\ resp' = MetricsAnswer(results)
    /\ mpc' = "done"
    /\ UNCHANGED <<tables, skuId, pending, results>>
    /\ UNCHANGED nonMetricsVars

\* lines 187-188, 205-217: any other iterator error also ends the loop
MetricsIterError ==
    /\ mpc = "iter"
    /\ lastErr' = "iter"
    /\ resp' = MetricsAnswer(results)
    /\ mpc' = "done"
    /\ UNCHANGED <<tables, skuId, pending, results>>
    /\ UNCHANGED nonMetricsVars

\* the state before any request: empty tables, no handler running
Init ==
    /\ inventoryRows = EmptyBag
    /\ purchaseRows = EmptyBag
    /\ ordersItemRows = EmptyBag
    /\ openOrderRows = EmptyBag
    /\ productRows = {}
    /\ mpc = "idle"
    /\ skuId = ""
    /\ pending = {}
    /\ results = <<>>
    /\ lastErr = "nil"
    /\ resp = NoResponse
    /\ labels = <<>>
    /\ once = <<>>
    /\ twice = <<>>
    /\ npc = "input"
    /\ delivered = <<>>
    /\ orderMap = <<>>
    /\ opc = "idle"
    /\ poErr = "nil"
    /\ poResp = NoResponse
    /\ bqClient = "client"
    /\ purchaseOrders = {}
    /\ skuSizesMetrics = {}
    /\ route = [r \in Requests |-> "none"]
    /\ param = [r \in Requests |-> ""]
    /\ hpc = [r \in Requests |-> "idle"]
    /\ rowIter = [r \in Requests |-> {}]
    /\ fetched = [r \in Requests |-> <<>>]
    /\ local = [r \in Requests |-> <<>>]
    /\ herr = [r \in Requests |-> "nil"]
    /\ sent = [r \in Requests |-> <<>>]
    /\ apiToken = ""
    /\ aStage = "boot"
    /\ aPath = ""
    /\ authHeader = ""
    /\ aResp = NoResponse
    /\ handled = FALSE
    /\ environ = [k \in EnvNames |-> ""]
    /\ envBefore = [k \in EnvNames |-> ""]
    /\ dotenvExists = FALSE
    /\ dotenv = <<>>
    /\ lpc = "setup"
    /\ envMode = ""
    /\ gStage = "boot"
    /\ gPath = ""
    /\ origin = ""
    /\ referer = ""
    /\ gResp = NoResponse
    /\ gHandled = FALSE

MetricsNext ==
    \/ InsertInventory
    \/ InsertPurchase
    \/ InsertOrderItem
    \/ InsertOpenOrder
    \/ InsertProduct
    \/ MetricsBadRequest
    \/ MetricsQueryFail
    \/ MetricsQueryRead
    \/ MetricsNextRow
    \/ MetricsIterDone
    \/ MetricsIterError

SpecMetrics == Init /\ [][MetricsNext]_vars

---------------------------------------------------------------------------
(* Vocabulary of the metrics claims, stated on the warehouse tables. *)

Key(sku, size) == [sku |-> sku, size |-> size]

InventoryOf(k) == {r \in BagToSet(inventoryRows) : r.base_sku = k.sku /\ r.size = k.size}
PurchasesOf(k) == {r \in BagToSet(purchaseRows) : r.base_sku = k.sku /\ r.size = k.size}
OrderItemsOf(k) ==
    {r \in BagToSet(ordersItemRows) : r.base_sku = k.sku /\ Substring(r.sku, 10) = k.size}
OpenOrdersOf(k) ==
    {r \in BagToSet(openOrderRows) :
        SubstringLen(r.product_sku, 1, 9) = k.sku /\ Substring(r.product_sku, 10) = k.size}

InventoryKeys(p) ==
    {Key(r.base_sku, r.size) : r \in {x \in BagToSet(inventoryRows) : x.base_sku = p}}
PurchaseKeys(p) ==
    {Key(r.base_sku, r.size) : r \in {x \in BagToSet(purchaseRows) : x.base_sku = p}}
\* the total-sold and the monthly-sold source read the same order items
SoldKeys(p) ==
    {Key(r.base_sku, Substring(r.sku, 10)) :
        r \in {x \in BagToSet(ordersItemRows) : x.base_sku = p}}
OpenKeys(p) ==
    {Key(SubstringLen(r.product_sku, 1, 9), Substring(r.product_sku, 10)) :
        r \in {x \in BagToSet(openOrderRows) : SubstringLen(x.product_sku, 1, 9) = p}}

\* every row of style p in any source, and the keys (size not NULL) among them
MatchingRows(p) == InventoryKeys(p) \cup PurchaseKeys(p) \cup SoldKeys(p) \cup OpenKeys(p)
ObservedKeys(p) == {k \in MatchingRows(p) : k.size # NULL}

\* how many of the five sources hold a row of key k
SourcesHolding(k) ==
    (IF InventoryOf(k) # {} THEN 1 ELSE 0) + (IF PurchasesOf(k) # {} THEN 1 ELSE 0)
    + (IF OrderItemsOf(k) # {} THEN 2 ELSE 0) + (IF OpenOrdersOf(k) # {} THEN 1 ELSE 0)

RECURSIVE SumBuckets(_, _)
SumBuckets(f, S) ==
    IF S = {} THEN 0
    ELSE LET m == CHOOSE x \in S : TRUE IN f[m] + SumBuckets(f, S \ {m})

\* the request ran to the end of the result set and was answered
Completed == mpc = "done" /\ lastErr = "done"

\* the records of the answer that belong to key k
RecordsOf(k) ==
    {i \in 1..Len(results) :
        results[i].sku = k.sku /\ results[i].size = NormalizeSize(k.size)}

ZeroBuckets == [m \in Months |-> 0]

---------------------------------------------------------------------------
\* C1 (as claimed): every key observed in a source has exactly one record under its
\* normalized size label, every numeric field of it is a number, and a field is 0
\* when its source holds no row of that normalized key.
C1_Density ==
    Completed =>
        \A k \in ObservedKeys(skuId) :
            /\ Cardinality(RecordsOf(k)) = 1
            /\ \A i \in RecordsOf(k) :
                  /\ results[i].available_count \in Nat
                  /\ results[i].purchased_count \in Nat
                  /\ results[i].sold_last_24_months \in Nat
                  /\ results[i].open_orders_quantity \in Nat
                  /\ \A m \in Months : results[i].sold[m] \in Nat
                  /\ (\A k2 \in ObservedKeys(skuId) :
                         NormalizeSize(k2.size) = NormalizeSize(k.size)
                            => InventoryOf(k2) = {})
                        => results[i].available_count = 0
                  /\ (\A k2 \in ObservedKeys(skuId) :
                         NormalizeSize(k2.size) = NormalizeSize(k.size)
                            => PurchasesOf(k2) = {})
                        => results[i].purchased_count = 0
                  /\ (\A k2 \in ObservedKeys(skuId) :
                         NormalizeSize(k2.size) = NormalizeSize(k.size)
                            => OrderItemsOf(k2) = {})
                        => /\ results[i].sold_last_24_months = 0
                           /\ results[i].sold = ZeroBuckets
                  /\ (\A k2 \in ObservedKeys(skuId) :
                         NormalizeSize(k2.size) = NormalizeSize(k.size)
                            => OpenOrdersOf(k2) = {})
                        => results[i].open_orders_quantity = 0

\* C2: a key held by exactly one source has a record with that source's fact and 0
\* in every other numeric field.
C2_LeftJoinComplete ==
    Completed =>
        \A k \in ObservedKeys(skuId) :
            SourcesHolding(k) = 1 =>
                \E i \in 1..Len(results) :
                    /\ results[i].sku = k.sku
                    /\ results[i].size = NormalizeSize(k.size)
                    /\ results[i].available_count
                          = SumQuantity(inventoryRows, InventoryOf(k))
                    /\ results[i].purchased_count
                          = SumQuantity(purchaseRows, PurchasesOf(k))
                    /\ results[i].sold_last_24_months = 0
                    /\ results[i].sold = ZeroBuckets
                    /\ results[i].open_orders_quantity
                          = BagCardinality([r \in OpenOrdersOf(k)
                                              |-> CopiesIn(r, openOrderRows)])

\* witness of C2: a key found only in open-orders, twice, answered with quantity 2
C2_Witness ==
    /\ Completed
    /\ resp.status = 200
    /\ \E k \in ObservedKeys(skuId) :
          /\ SourcesHolding(k) = 1
          /\ OpenOrdersOf(k) # {}
          /\ \E i \in 1..Len(results) :
                /\ results[i].size = NormalizeSize(k.size)
                /\ results[i].open_orders_quantity = 2
                /\ results[i].available_count = 0

\* C3 (as claimed): the twelve monthly buckets of a key's record add up to the
\* quantities of all order items of that key.
C3_PivotSum ==
    Completed =>
        \A k \in ObservedKeys(skuId) :
            \E i \in RecordsOf(k) :
                SumBuckets(results[i].sold, Months)
                    = SumQuantity(ordersItemRows, OrderItemsOf(k))

\* C4 (as claimed): no two records of the answer share style code and size label.
C4_NormalizedKeysMerged ==
    Completed =>
        \A i, j \in 1..Len(results) :
            (results[i].sku = results[j].sku /\ results[i].size = results[j].size)
                => i = j

\* C6: with the result set read to its end, a style without any source row is
\* answered 404 with the requested code echoed, a style with a key is answered 200
\* with a non-empty array; a 200 never carries an empty array.
C6_NotFoundDistinct ==
    /\ resp.status = 200 => Len(resp.body) > 0
    /\ Completed =>
          /\ MatchingRows(skuId) = {} =>
                /\ resp.status = 404
                /\ DOMAIN resp.body = {"error", "sku"}
                /\ resp.body.sku = skuId
          /\ ObservedKeys(skuId) # {} =>
                /\ resp.status = 200
                /\ Len(resp.body) > 0

\* witness of C6: the warehouse holds rows, none of the requested style: 404
C6_Witness ==
    /\ Completed
    /\ TotalRows > 0
    /\ MatchingRows(skuId) = {}
    /\ resp.status = 404
    /\ resp.body.sku = StyleA

\* C12 (as claimed): 404 is answered only when the result set was read to its end
\* without an error and held no row.
C12_NotFoundOnlyWhenComplete ==
    resp.status = 404 => (lastErr = "done" /\ pending = {} /\ results = <<>>)

\* the number of open-order rows of key k
OpenCount(k) == BagCardinality([r \in OpenOrdersOf(k) |-> CopiesIn(r, openOrderRows)])

\* size label and the four totals of a record of the answer
FactsOfRecord(rec) ==
    <<rec.size, rec.available_count, rec.purchased_count, rec.sold_last_24_months,
      rec.open_orders_quantity>>

\* size label and the four totals of key k, taken from the rows of k's style only
FactsOfKey(k) ==
    <<NormalizeSize(k.size), SumQuantity(inventoryRows, InventoryOf(k)),
      SumQuantity(purchaseRows, PurchasesOf(k)),
      SumQuantity(ordersItemRows, OrderItemsOf(k)), OpenCount(k)>>

\* C16: every record carries the requested style code; with the result set read to
\* its end, the size labels and totals of the records are those of the keys of the
\* requested style, every key among them, taken from the rows of that style alone.
C16_SingleStyleOnly ==
    /\ \A i \in 1..Len(results) : results[i].sku = skuId
    /\ Completed =>
          {FactsOfRecord(results[i]) : i \in 1..Len(results)}
              = {FactsOfKey(k) : k \in ObservedKeys(skuId)}

\* witness of C16: the inventory holds a row of each style, style B was requested
\* and is answered with its one record
C16_Witness ==
    /\ Completed
    /\ skuId = StyleB
    /\ \E r \in BagToSet(inventoryRows) : r.base_sku = StyleA /\ r.size # NULL
    /\ resp.status = 200
    /\ Len(results) = 1
    /\ results[1].sku = StyleB
    /\ results[1].available_count = 1

\* the catalog entries of a catalog key: the ids of its rows, or null (the empty
\* sequence) when it has none
CatalogLookup(key) ==
    IF \E x \in productRows : x.sku = key
    THEN {<<x.id>> : x \in {y \in productRows : y.sku = key}}
    ELSE {<<>>}

\* C17 (as claimed): the product_id of a record is the catalog entry whose key is the
\* style code followed by the normalized size label, null when there is none.
C17_ProductIdByNormalizedSize ==
    Completed =>
        \A i \in 1..Len(results) :
            results[i].product_id \in CatalogLookup(results[i].sku \o results[i].size)

\* C23 (as claimed): no record of the answer has a NULL or an empty size label, and
\* every key with a size label that is neither has its record.
C23_NoNullOrEmptySize ==
    Completed =>
        /\ \A i \in 1..Len(results) : results[i].size # NULL /\ results[i].size # ""
        /\ \A k \in ObservedKeys(skuId) : k.size # "" => RecordsOf(k) # {}

---------------------------------------------------------------------------
(* The CASE expression of the final SELECT (lines 126-132) applied to a      *)
(* column of size labels, and applied again to its own output.               *)

NormInput ==
    /\ npc = "input"
    /\ Len(labels) < MaxLabels
    /\ \E l \in SizeLabels : labels' = Append(labels, l)
    /\ UNCHANGED <<once, twice, npc>>
    /\ UNCHANGED nonNormVars

NormApply ==
    /\ npc = "input"
    /\ once' = [i \in 1..Len(labels) |-> NormalizeSize(labels[i])]
    /\ npc' = "once"
    /\ UNCHANGED <<labels, twice>>
    /\ UNCHANGED nonNormVars

NormReapply ==
    /\ npc = "once"
    /\ twice' = [i \in 1..Len(once) |-> NormalizeSize(once[i])]
    /\ npc' = "twice"
    /\ UNCHANGED <<labels, once>>
    /\ UNCHANGED nonNormVars

NormNext == NormInput \/ NormApply \/ NormReapply

SpecNormalize == Init /\ [][NormNext]_vars

\* the table of the claim: the four half-size codes and their decimal forms
HalfSizeTable ==
    [code \in {"385", "395", "425", "435"} |->
        CASE code = "385" -> "38.5"
          [] code = "395" -> "39.5"
          [] code = "425" -> "42.5"
          [] code = "435" -> "43.5"]

\* C5: normalization maps the four half-size codes to their decimal forms and every
\* other label to itself, and normalizing a normalized column changes nothing.
C5_NormalizeIdempotent ==
    /\ npc \in {"once", "twice"} =>
          /\ Len(once) = Len(labels)
          /\ \A i \in 1..Len(labels) :
                once[i] = IF labels[i] \in DOMAIN HalfSizeTable
                          THEN HalfSizeTable[labels[i]]
                          ELSE labels[i]
    /\ npc = "twice" => twice = once

\* witness of C5: '385' became '38.5', '39.5' stayed, and a second pass kept both
C5_Witness ==
    /\ npc = "twice"
    /\ labels = <<"385", "39.5">>
    /\ once = <<"38.5", "39.5">>
    /\ twice = <<"38.5", "39.5">>

---------------------------------------------------------------------------
(* Text helpers: characters, their order, and Go's time.Parse("2006-01-02"). *)

CharAt(s, i) == SubSeq(s, i, i)

Digits == <<"0", "1", "2", "3", "4", "5", "6", "7", "8", "9">>
Letters == <<"a", "b", "c", "d", "e", "f", "g", "h", "i", "j", "k", "l", "m",
             "n", "o", "p", "q", "r", "s", "t", "u", "v", "w", "x", "y", "z">>

IsDigit(c) == \E i \in 1..Len(Digits) : Digits[i] = c
DigitValue(c) == (CHOOSE i \in 1..Len(Digits) : Digits[i] = c) - 1

\* the code point of a character of a delivery_date text
CodePoint(c) ==
    IF c = "-" THEN 45
    ELSE IF IsDigit(c) THEN 48 + DigitValue(c)
    ELSE 96 + (CHOOSE i \in 1..Len(Letters) : Letters[i] = c)

RECURSIVE StrCmpFrom(_, _, _)
\* comparison of two texts by code point from position i on: -1, 0 or 1
StrCmpFrom(a, b, i) ==
    IF i > Len(a) /\ i > Len(b) THEN 0
    ELSE IF i > Len(a) THEN -1
    ELSE IF i > Len(b) THEN 1
    ELSE IF CodePoint(CharAt(a, i)) < CodePoint(CharAt(b, i)) THEN -1
    ELSE IF CodePoint(CharAt(a, i)) > CodePoint(CharAt(b, i)) THEN 1
    ELSE StrCmpFrom(a, b, i + 1)

StrCmp(a, b) == StrCmpFrom(a, b, 1)

\* the number written by the two digits at positions i and i+1
TwoDigits(s, i) == 10 * DigitValue(CharAt(s, i)) + DigitValue(CharAt(s, i + 1))

FourDigits(s, i) == 100 * TwoDigits(s, i) + TwoDigits(s, i + 2)

IsLeap(y) == y % 4 = 0 /\ (y % 100 # 0 \/ y % 400 = 0)

DaysIn(m, y) ==
    IF m = 2 THEN (IF IsLeap(y) THEN 29 ELSE 28)
    ELSE IF m \in {4, 6, 9, 11} THEN 30
    ELSE 31

\* mutant of ParseDate: any text of ten characters passes
ParseDateLenOnly(s) == Len(s) = 10

\* time.Parse("2006-01-02", s) returns no error
ParseDate(s) ==
    /\ Len(s) = 10
    /\ \A i \in {1, 2, 3, 4, 6, 7, 9, 10} : IsDigit(CharAt(s, i))
    /\ CharAt(s, 5) = "-"
    /\ CharAt(s, 8) = "-"
    /\ TwoDigits(s, 6) \in 1..12
    /\ TwoDigits(s, 9) \in 1..DaysIn(TwoDigits(s, 6), FourDigits(s, 1))

---------------------------------------------------------------------------
(* getPurchaseOrders and transformOrderFromItems, src/unnamed/part_000.     *)

\* the comparison of every two delivery_date texts of the table
DateCmp == [a \in DeliveryDates \cup {Today}, b \in DeliveryDates \cup {Today} |-> StrCmp(a, b)]

\* WHERE delivery_date >= FORMAT_DATE('%Y-%m-%d', CURRENT_DATE())
PassesDateFilter(row) == DateCmp[row.DeliveryDate, Today] >= 0

\* the rows of the table that pass the WHERE clause
QueryRows == {row \in OrderRowDomain : PassesDateFilter(row)}

\* ORDER BY delivery_date, id, items.product_id: row a may come before row b
OrderedBefore(a, b) ==
    LET c == DateCmp[a.DeliveryDate, b.DeliveryDate]
    IN  \/ c < 0
        \/ c = 0 /\ a.ID < b.ID
        \/ c = 0 /\ a.ID = b.ID /\ a.ProductID <= b.ProductID

\* mutant of KeptItems: the product id is not looked at
RECURSIVE KeptItemsAnyProduct(_)
KeptItemsAnyProduct(items) ==
    IF items = <<>> THEN <<>>
    ELSE LET item == Head(items)
         IN  IF item.Quantity > 0
             THEN <<[SKU |-> "ETIQL" \o ToString(item.ProductID),
                     Quantity |-> item.Quantity]>> \o KeptItemsAnyProduct(Tail(items))
             ELSE KeptItemsAnyProduct(Tail(items))

\* lines 347-355: the items kept of a group, in order
RECURSIVE KeptItems(_)
KeptItems(items) ==
    IF items = <<>> THEN <<>>
    ELSE LET item == Head(items)
         IN  IF item.Quantity > 0 /\ item.ProductID > 0
             THEN <<[SKU |-> "ETIQL" \o ToString(item.ProductID),
                     Quantity |-> item.Quantity]>> \o KeptItems(Tail(items))
             ELSE KeptItems(Tail(items))

\* mutant of transformOrderFromItems: an order is returned even with no item kept
transformKeepsEmpty(orderID, deliveryDate, items) ==
    IF deliveryDate = "" \/ Len(items) = 0 THEN <<>>
    ELSE IF ~ParseDate(deliveryDate) THEN <<>>
    ELSE <<[EstimatedDeliveryDate |-> deliveryDate, Items |-> KeptItems(items)]>>

\* lines 337-365: nil is the empty sequence, &Order{...} a sequence of one order
transformOrderFromItems(orderID, deliveryDate, items) ==
    IF deliveryDate = "" \/ Len(items) = 0 THEN <<>>
    ELSE IF ~ParseDate(deliveryDate) THEN <<>>
    ELSE LET orderItems == KeptItems(items)
         IN  IF Len(orderItems) = 0 THEN <<>>
             ELSE <<[EstimatedDeliveryDate |-> deliveryDate, Items |-> orderItems]>>

\* fmt.Sprintf("order_%d", orderID)
OrderKey(orderID) == "order_" \o ToString(orderID)

\* lines 310-316: the row is appended to its (order id, delivery date) group
AddToOrderMap(m, item) ==
    LET dates == IF item.ID \in DOMAIN m THEN m[item.ID] ELSE <<>>
        group == IF item.DeliveryDate \in DOMAIN dates
                 THEN dates[item.DeliveryDate] ELSE <<>>
    IN  [id \in DOMAIN m \cup {item.ID} |->
            IF id = item.ID
            THEN [d \in DOMAIN dates \cup {item.DeliveryDate} |->
                    IF d = item.DeliveryDate THEN Append(group, item) ELSE dates[d]]
            ELSE m[id]]

\* lines 319-330: the response maps built from orderMap.  Both loops range over Go
\* maps, whose iteration order is unspecified: every group is transformed, an order
\* that is not nil is written under the key of its order id, and for an order id
\* with several such groups the one written last stays: any of them may be last.
Responses(m) ==
    LET built == UNION {{[orderID |-> id, deliveryDate |-> d,
                          order |-> transformOrderFromItems(id, d, m[id][d])]
                         : d \in DOMAIN m[id]} : id \in DOMAIN m}
        written == {b \in built : b.order # <<>>}
        ids == {b.orderID : b \in written}
        lastWritten == {f \in [ids -> written] : \A id \in ids : f[id].orderID = id}
    IN  {[k \in {OrderKey(id) : id \in ids} |->
            (CHOOSE b \in {f[id] : id \in ids} : OrderKey(b.orderID) = k).order[1]]
         : f \in lastWritten}

\* lines 288-296: query.Read fails
OrdersQueryFail ==
    /\ opc = "idle"
    /\ poErr' = "read"
    /\ poResp' = Response(500, [error |-> "Failed to query BigQuery",
                                 details |-> "query error"], {})
    /\ opc' = "done"
    /\ UNCHANGED <<delivered, orderMap>>
    /\ UNCHANGED nonOrdersVars

\* lines 274-300: query.Read succeeds
OrdersQueryRead ==
    /\ opc = "idle"
    /\ orderMap' = <<>>
    /\ delivered' = <<>>
    /\ opc' = "iter"
    /\ UNCHANGED <<poErr, poResp>>
    /\ UNCHANGED nonOrdersVars

\* lines 302-317: it.Next delivers the next row of the filtered, ordered result
OrdersNextRow ==
    /\ opc = "iter"
    /\ Len(delivered) < MaxOrderRows
    /\ \E row \in QueryRows :
          /\ delivered # <<>> => OrderedBefore(delivered[Len(delivered)], row)
          /\ delivered' = Append(delivered, row)
          /\ orderMap' = AddToOrderMap(orderMap, row)
    /\ UNCHANGED <<opc, poErr, poResp>>
    /\ UNCHANGED nonOrdersVars

\* lines 305-307, 319-334: iterator.Done ends the loop; the answer is written
OrdersIterDone ==
    /\ opc = "iter"
    /\ poErr' = "done"
    /\ \E response \in Responses(orderMap) :
          poResp' = Response(200, response, {CacheHeader})
    /\ opc' = "done"
    /\ UNCHANGED <<delivered, orderMap>>
    /\ UNCHANGED nonOrdersVars

\* lines 305-307, 319-334: any other error of it.Next ends the loop the same way
OrdersIterError ==
    /\ opc = "iter"
    /\ poErr' = "iter"
    /\ \E response \in Responses(orderMap) :
          poResp' = Response(200, response, {CacheHeader})
    /\ opc' = "done"
    /\ UNCHANGED <<delivered, orderMap>>
    /\ UNCHANGED nonOrdersVars

OrdersNext ==
    \/ OrdersQueryFail
    \/ OrdersQueryRead
    \/ OrdersNextRow
    \/ OrdersIterDone
    \/ OrdersIterError

SpecOrders == Init /\ [][OrdersNext]_vars

---------------------------------------------------------------------------
(* Vocabulary of the purchase-order claims, stated on the delivered rows. *)

\* the delivery_date texts of the table that are calendar dates in YYYY-MM-DD form
CalendarDates == {"2024-12-31", "2025-01-10", "2025-02-01"}

\* the SKU text of the product ids of the table
SkuText == (500 :> "ETIQL500" @@ 501 :> "ETIQL501")

\* the (order id, delivery date) groups of the delivered rows
GroupPairs == {<<delivered[i].ID, delivered[i].DeliveryDate>> : i \in 1..Len(delivered)}

RowInGroup(r, id, d) == r.ID = id /\ r.DeliveryDate = d

GroupRows(id, d) == SelectSeq(delivered, LAMBDA r : RowInGroup(r, id, d))

ValidItem(r) == r.Quantity > 0 /\ r.ProductID > 0

\* the line items a group is to produce: its valid rows, in delivery order
ExpectedItems(id, d) ==
    LET kept == SelectSeq(GroupRows(id, d), ValidItem)
    IN  [i \in 1..Len(kept) |->
            [SKU |-> SkuText[kept[i].ProductID], Quantity |-> kept[i].Quantity]]

\* getPurchaseOrders answered with the aggregated mapping
OrdersAnswered == opc = "done" /\ poResp.status = 200

\* C7 (as claimed): every group with a calendar date and a valid row has its order
\* in the answer, also when another group of the same order id is present.
C7_EveryGroupEmitted ==
    OrdersAnswered =>
        \A g \in GroupPairs :
            (g[2] \in CalendarDates /\ ExpectedItems(g[1], g[2]) # <<>>)
                => \E k \in DOMAIN poResp.body :
                      /\ k = OrderKey(g[1])
                      /\ poResp.body[k].EstimatedDeliveryDate = g[2]

\* C8: every emitted delivery date is a calendar date and the date of a delivered
\* group of that order; a group dated '' or 'not-a-date' yields no order, whatever
\* its rows.
C8_InvalidDateDropped ==
    OrdersAnswered =>
        /\ \A k \in DOMAIN poResp.body :
              /\ poResp.body[k].EstimatedDeliveryDate \in CalendarDates
              /\ \E g \in GroupPairs :
                    /\ k = OrderKey(g[1])
                    /\ poResp.body[k].EstimatedDeliveryDate = g[2]
        /\ \A g \in GroupPairs :
              /\ transformOrderFromItems(g[1], "", GroupRows(g[1], g[2])) = <<>>
              /\ transformOrderFromItems(g[1], "not-a-date", GroupRows(g[1], g[2])) = <<>>
              /\ g[2] \notin CalendarDates =>
                    \A k \in DOMAIN poResp.body :
                        poResp.body[k].EstimatedDeliveryDate # g[2]

\* witness of C8: valid rows dated 'not-a-date' and '2025-02-30' were delivered
\* beside a dated one, and only the dated one is in the answer
C8_Witness ==
    /\ OrdersAnswered
    /\ \E i \in 1..Len(delivered) :
          delivered[i].DeliveryDate = "not-a-date" /\ ValidItem(delivered[i])
    /\ \E i \in 1..Len(delivered) :
          delivered[i].DeliveryDate = "2025-02-30" /\ ValidItem(delivered[i])
    /\ \E k \in DOMAIN poResp.body :
          poResp.body[k].EstimatedDeliveryDate = "2025-02-01"

\* C9: the items of an emitted order are the valid rows of its group, in delivery
\* order, each with SKU 'ETIQL' + product id and the row's quantity, which is positive.
C9_ItemsFiltered ==
    OrdersAnswered =>
        \A k \in DOMAIN poResp.body :
            \E id \in OrderIds :
                /\ k = OrderKey(id)
                /\ poResp.body[k].Items
                      = ExpectedItems(id, poResp.body[k].EstimatedDeliveryDate)
                /\ \A i \in 1..Len(poResp.body[k].Items) :
                      poResp.body[k].Items[i].Quantity > 0

\* witness of C9: a group of three rows, the one without a product dropped, the other
\* two emitted in delivery order
C9_Witness ==
    /\ OrdersAnswered
    /\ "order_1" \in DOMAIN poResp.body
    /\ Len(GroupRows(1, poResp.body["order_1"].EstimatedDeliveryDate)) = 3
    /\ poResp.body["order_1"].Items
          = <<[SKU |-> "ETIQL500", Quantity |-> 2], [SKU |-> "ETIQL501", Quantity |-> 1]>>

\* C10: every order of the answer has at least one item, and a group whose rows are
\* all filtered out has no entry.
C10_NoEmptyOrder ==
    OrdersAnswered =>
        /\ \A k \in DOMAIN poResp.body : Len(poResp.body[k].Items) >= 1
        /\ \A g \in GroupPairs :
              ExpectedItems(g[1], g[2]) = <<>> =>
                  ~ /\ OrderKey(g[1]) \in DOMAIN poResp.body
                    /\ poResp.body[OrderKey(g[1])].EstimatedDeliveryDate = g[2]

\* witness of C10: order 1 has a calendar date and only invalid rows and is absent,
\* order 2 is present
C10_Witness ==
    /\ OrdersAnswered
    /\ \E g \in GroupPairs :
          /\ g[1] = 1
          /\ g[2] \in CalendarDates
          /\ Len(GroupRows(g[1], g[2])) = 2
          /\ ExpectedItems(g[1], g[2]) = <<>>
    /\ DOMAIN poResp.body = {"order_2"}


\* C15 (as claimed): the answer is the only mapping the aggregation can produce from
\* the delivered rows.
C15_AggregationDeterministic ==
    OrdersAnswered => \A response \in Responses(orderMap) : response = poResp.body

\* the delivery dates of order id whose group yields an order
SurvivingDates(id) ==
    {d \in {g[2] : g \in {x \in GroupPairs : x[1] = id}} :
        d \in CalendarDates /\ ExpectedItems(id, d) # <<>>}

\* the position in the delivered rows of the last row of group (id, d)
LastRowOf(id, d) ==
    CHOOSE i \in 1..Len(delivered) :
        /\ RowInGroup(delivered[i], id, d)
        /\ \A j \in (i + 1)..Len(delivered) : ~RowInGroup(delivered[j], id, d)

\* C21 (as claimed): the answer has the key 'order_' + id exactly for the order ids
\* with a surviving group, and the entry is the surviving group delivered last.
C21_LastGroupSurvives ==
    OrdersAnswered =>
        /\ DOMAIN poResp.body = {OrderKey(id) : id \in {x \in OrderIds : SurvivingDates(x) # {}}}
        /\ \A id \in OrderIds :
              SurvivingDates(id) # {} =>
                  \E d \in SurvivingDates(id) :
                      /\ \A e \in SurvivingDates(id) : LastRowOf(id, e) <= LastRowOf(id, d)
                      /\ poResp.body[OrderKey(id)].EstimatedDeliveryDate = d

---------------------------------------------------------------------------
(* The server of src/main.go (150-285): every request runs the handler of   *)
(* its route in a goroutine of its own.  The handlers are getSkuMetrics     *)
(* (src/sku_metrics.go), getSkuMetricsSingle (src/sku_metrics_single.go),   *)
(* getPurchaseOrders (src/purchase_orders.go, and its earlier revision in   *)
(* src/unnamed/part_000) and getAllPurchaseOrders (src/unnamed/part_003,    *)
(* 434-484).  The tables are loaded before the first request is dispatched. *)

PathSkuMetrics == "/sku-metrics"
PathSkuMetricsSingle == "/sku-metrics/:sku_id"
PathPurchaseOrders == "/purchase-orders"
PathAllPurchaseOrders == "/all-purchase-orders"
\* the revision of getPurchaseOrders in src/unnamed/part_000, registered under the same path
PathPurchaseOrdersGrouped == "/purchase-orders (part_000)"

serverTables == <<purchaseOrders, skuSizesMetrics>>

LoadPurchaseOrder ==
    /\ CanInsert
    /\ \E row \in PurchaseOrderDomain : purchaseOrders' = purchaseOrders \cup {row}
    /\ UNCHANGED <<bqClient, skuSizesMetrics, route, param, hpc, rowIter, fetched, local,
                   herr, sent>>
    /\ UNCHANGED nonServerVars

LoadSkuSizesMetrics ==
    /\ CanInsert
    /\ \E row \in SkuSizesMetricsDomain : skuSizesMetrics' = skuSizesMetrics \cup {row}
    /\ UNCHANGED <<bqClient, purchaseOrders, route, param, hpc, rowIter, fetched, local,
                   herr, sent>>
    /\ UNCHANGED nonServerVars

\* FROM agent.purchase_orders, UNNEST(items) as items: one row per order and item
UnnestItems ==
    UNION {{[ID |-> o.id, DeliveryDate |-> o.delivery_date,
             ProductID |-> o.items[i].product_id, SKU |-> o.items[i].sku,
             Size |-> o.items[i].size, Quantity |-> o.items[i].quantity]
            : i \in 1..Len(o.items)} : o \in purchaseOrders}

\* the statement of getPurchaseOrders: the unnested rows from today on
PurchaseOrdersQuery == {row \in UnnestItems : PassesDateFilter(row)}

\* ORDER BY: the rows of a result set that may be delivered next
NextInOrder(rows) == {row \in rows : \A other \in rows : OrderedBefore(row, other)}

\* mutant of filtered_items: the items array is passed on as it is
filtered_items_unfiltered(o) == o

\* the CTE filtered_items: SELECT * EXCEPT(items), ARRAY(... WHERE product_id != 0) as items
filtered_items(o) ==
    [id |-> o.id, delivery_date |-> o.delivery_date,
     items |-> SelectSeq(o.items, LAMBDA x : x.product_id # 0)]

\* the statement of getAllPurchaseOrders: SELECT * FROM filtered_items WHERE ARRAY_LENGTH(items) > 0
AllPurchaseOrdersQuery ==
    {f \in {filtered_items(o) : o \in purchaseOrders} : Len(f.items) > 0}

\* the statement of getSkuMetrics: the view, column by column
SkuMetricsQuery == skuSizesMetrics

\* row[field.Name] = values[i] over the schema of the purchase-orders statement
RowAsMap(row) ==
    [id |-> row.ID, delivery_date |-> row.DeliveryDate, product_id |-> row.ProductID,
     sku |-> row.SKU, size |-> row.Size, quantity |-> row.Quantity]

\* mutant of Failure: the cache header is set on an error response as well
FailureCached(status, body) == Response(status, body, {CacheHeader})

\* c.JSON(status, gin.H{...}) of an error: no header is set before it
Failure(status, body) == Response(status, body, {})

\* c.Header("Cache-Control", "private, max-age=300"); c.JSON(http.StatusOK, body)
Success(body) == Response(200, body, {CacheHeader})

\* mutant of QueryFailure: the diagnostic message is not passed on
QueryFailureBare(details) == Failure(500, [error |-> "Failed to query BigQuery"])

\* the answer to a failed query.Read: err.Error() goes into details
QueryFailure(details) ==
    Failure(500, [error |-> "Failed to query BigQuery", details |-> details])

\* the answer of getAllPurchaseOrders to a failed it.Next
ReadFailure(details) ==
    Failure(500, [error |-> "Failed to read BigQuery results", details |-> details])

\* the answer of getSkuMetricsSingle after its loop, for sku_id p
SingleAnswer(p, res) ==
    IF Len(res) = 0
    THEN Failure(404, [error |-> "SKU not found", sku |-> p])
    ELSE Success(res)

\* mutant of Frame: results is one variable of the package, shared by all invocations
FrameShared(r) == "r1"

\* the variables a handler declares (results, orderMap) belong to its invocation
Frame(r) == r

\* the errors it.Next may return now: iterator.Done once no row is left, or a failure
EndErrors(r) == IF rowIter[r] = {} THEN {"done", "iter"} ELSE {"iter"}

\* it, err := query.Read(ctx) fails: one 500 response, and the handler returns
QueryFails(r, path, p) ==
    /\ route[r] = "none"
    /\ route' = [route EXCEPT ![r] = path]
    /\ param' = [param EXCEPT ![r] = p]
    /\ herr' = [herr EXCEPT ![r] = "read"]
    /\ sent' = [sent EXCEPT ![r] = Append(@, QueryFailure("query error"))]
    /\ hpc' = [hpc EXCEPT ![r] = "done"]
    /\ UNCHANGED <<bqClient, serverTables, rowIter, fetched, local>>
    /\ UNCHANGED nonServerVars

\* query.Read succeeds: the iterator holds the rows of the statement
QueryReads(r, path, p, rows) ==
    /\ route[r] = "none"
    /\ route' = [route EXCEPT ![r] = path]
    /\ param' = [param EXCEPT ![r] = p]
    /\ rowIter' = [rowIter EXCEPT ![r] = rows]
    /\ local' = [local EXCEPT ![Frame(r)] = <<>>]
    /\ hpc' = [hpc EXCEPT ![r] = "iter"]
    /\ UNCHANGED <<bqClient, serverTables, fetched, herr, sent>>
    /\ UNCHANGED nonServerVars

\* it.Next delivers row; the handler's local becomes value
Delivers(r, row, value) ==
    /\ hpc[r] = "iter"
    /\ rowIter' = [rowIter EXCEPT ![r] = @ \ {row}]
    /\ fetched' = [fetched EXCEPT ![r] = Append(@, row)]
    /\ local' = [local EXCEPT ![Frame(r)] = value]
    /\ UNCHANGED <<bqClient, serverTables, route, param, hpc, herr, sent>>
    /\ UNCHANGED nonServerVars

\* mutant of Ends: the response is written and the handler does not return
EndsWithoutReturn(r, e, response) ==
    /\ hpc[r] = "iter"
    /\ herr' = [herr EXCEPT ![r] = e]
    /\ sent' = [sent EXCEPT ![r] = Append(@, response)]
    /\ UNCHANGED <<bqClient, serverTables, route, param, hpc, rowIter, fetched, local>>
    /\ UNCHANGED nonServerVars

\* it.Next returns error e; the handler writes response and returns
Ends(r, e, response) ==
    /\ hpc[r] = "iter"
    /\ herr' = [herr EXCEPT ![r] = e]
    /\ sent' = [sent EXCEPT ![r] = Append(@, response)]
    /\ hpc' = [hpc EXCEPT ![r] = "done"]
    /\ UNCHANGED <<bqClient, serverTables, route, param, rowIter, fetched, local>>
    /\ UNCHANGED nonServerVars

(* getSkuMetrics, src/sku_metrics.go 12-90 *)

SkuMetricsQueryFail(r) == QueryFails(r, PathSkuMetrics, "")

SkuMetricsQueryRead(r) == QueryReads(r, PathSkuMetrics, "", SkuMetricsQuery)

SkuMetricsNextRow(r) ==
    /\ route[r] = PathSkuMetrics
    /\ \E row \in rowIter[r] : Delivers(r, row, Append(local[Frame(r)], row))

\* lines 66-69, 87-89: any error of it.Next ends the loop and the rows read are answered
SkuMetricsLoopEnd(r) ==
    /\ route[r] = PathSkuMetrics
    /\ \E e \in EndErrors(r) : Ends(r, e, Success(local[Frame(r)]))

(* getPurchaseOrders, src/purchase_orders.go 14-66 *)

FlatOrdersQueryFail(r) == QueryFails(r, PathPurchaseOrders, "")

FlatOrdersQueryRead(r) == QueryReads(r, PathPurchaseOrders, "", PurchaseOrdersQuery)

FlatOrdersNextRow(r) ==
    /\ route[r] = PathPurchaseOrders
    /\ \E row \in NextInOrder(rowIter[r]) :
          Delivers(r, row, Append(local[Frame(r)], RowAsMap(row)))

\* lines 47-49, 63-65
FlatOrdersLoopEnd(r) ==
    /\ route[r] = PathPurchaseOrders
    /\ \E e \in EndErrors(r) : Ends(r, e, Success(local[Frame(r)]))

(* getPurchaseOrders, src/unnamed/part_000 270-335 *)

GroupedOrdersQueryFail(r) == QueryFails(r, PathPurchaseOrdersGrouped, "")

GroupedOrdersQueryRead(r) == QueryReads(r, PathPurchaseOrdersGrouped, "", PurchaseOrdersQuery)

GroupedOrdersNextRow(r) ==
    /\ route[r] = PathPurchaseOrdersGrouped
    /\ \E row \in NextInOrder(rowIter[r]) :
          Delivers(r, row, AddToOrderMap(local[Frame(r)], row))

\* lines 305-307, 319-334
GroupedOrdersLoopEnd(r) ==
    /\ route[r] = PathPurchaseOrdersGrouped
    /\ \E e \in EndErrors(r) :
          \E response \in Responses(local[Frame(r)]) : Ends(r, e, Success(response))

(* getAllPurchaseOrders, src/unnamed/part_003 434-484 *)

AllOrdersQueryFail(r) == QueryFails(r, PathAllPurchaseOrders, "")

AllOrdersQueryRead(r) == QueryReads(r, PathAllPurchaseOrders, "", AllPurchaseOrdersQuery)

AllOrdersNextRow(r) ==
    /\ route[r] = PathAllPurchaseOrders
    /\ \E row \in rowIter[r] : Delivers(r, row, Append(local[Frame(r)], row))

\* lines 467-469, 481-483: iterator.Done ends the loop
AllOrdersIterDone(r) ==
    /\ route[r] = PathAllPurchaseOrders
    /\ rowIter[r] = {}
    /\ Ends(r, "done", Success(local[Frame(r)]))

\* mutant of AllOrdersIterError: the error ends the loop and the rows read are answered
AllOrdersIterErrorBreaks(r) ==
    /\ route[r] = PathAllPurchaseOrders
    /\ Ends(r, "iter", Success(local[Frame(r)]))

\* lines 470-477: any other error is answered 500
AllOrdersIterError(r) ==
    /\ route[r] = PathAllPurchaseOrders
    /\ Ends(r, "iter", ReadFailure("read error"))

(* getSkuMetricsSingle, src/sku_metrics_single.go 12-218 *)

SingleBadRequest(r) ==
    /\ route[r] = "none"
    /\ route' = [route EXCEPT ![r] = PathSkuMetricsSingle]
    /\ sent' = [sent EXCEPT ![r] =
                      Append(@, Failure(400, [error |-> "SKU ID is required"]))]
    /\ hpc' = [hpc EXCEPT ![r] = "done"]
    /\ UNCHANGED <<bqClient, serverTables, param, rowIter, fetched, local, herr>>
    /\ UNCHANGED nonServerVars

SingleQueryFail(r) == \E p \in Styles : QueryFails(r, PathSkuMetricsSingle, p)

SingleQueryRead(r) ==
    \E p \in Styles : QueryReads(r, PathSkuMetricsSingle, p, MetricsQuery(p))

SingleNextRow(r) ==
    /\ route[r] = PathSkuMetricsSingle
    /\ \E row \in rowIter[r] : Delivers(r, row, Append(local[Frame(r)], row))

\* lines 181-189, 205-217
SingleLoopEnd(r) ==
    /\ route[r] = PathSkuMetricsSingle
    /\ \E e \in EndErrors(r) : Ends(r, e, SingleAnswer(param[r], local[Frame(r)]))

ServerNext ==
    \/ LoadPurchaseOrder
    \/ LoadSkuSizesMetrics
    \/ InsertOpenOrder
    \/ \E r \in Requests :
          \/ SkuMetricsQueryFail(r)
          \/ SkuMetricsQueryRead(r)
          \/ SkuMetricsNextRow(r)
          \/ SkuMetricsLoopEnd(r)
          \/ FlatOrdersQueryFail(r)
          \/ FlatOrdersQueryRead(r)
          \/ FlatOrdersNextRow(r)
          \/ FlatOrdersLoopEnd(r)
          \/ GroupedOrdersQueryFail(r)
          \/ GroupedOrdersQueryRead(r)
          \/ GroupedOrdersNextRow(r)
          \/ GroupedOrdersLoopEnd(r)
          \/ AllOrdersQueryFail(r)
          \/ AllOrdersQueryRead(r)
          \/ AllOrdersNextRow(r)
          \/ AllOrdersIterDone(r)
          \/ AllOrdersIterError(r)
          \/ SingleBadRequest(r)
          \/ SingleQueryFail(r)
          \/ SingleQueryRead(r)
          \/ SingleNextRow(r)
          \/ SingleLoopEnd(r)

SpecServer == Init /\ [][ServerNext]_vars

\* the steps of the row loop of request r: one call of it.Next and what follows it
LoopStep(r) ==
    \/ SkuMetricsNextRow(r)
    \/ SkuMetricsLoopEnd(r)
    \/ FlatOrdersNextRow(r)
    \/ FlatOrdersLoopEnd(r)
    \/ GroupedOrdersNextRow(r)
    \/ GroupedOrdersLoopEnd(r)
    \/ AllOrdersNextRow(r)
    \/ AllOrdersIterDone(r)
    \/ AllOrdersIterError(r)
    \/ SingleNextRow(r)
    \/ SingleLoopEnd(r)

\* the steps of request r up to the return of query.Read
QueryStep(r) ==
    \/ SkuMetricsQueryFail(r)
    \/ SkuMetricsQueryRead(r)
    \/ FlatOrdersQueryFail(r)
    \/ FlatOrdersQueryRead(r)
    \/ GroupedOrdersQueryFail(r)
    \/ GroupedOrdersQueryRead(r)
    \/ AllOrdersQueryFail(r)
    \/ AllOrdersQueryRead(r)
    \/ SingleBadRequest(r)
    \/ SingleQueryFail(r)
    \/ SingleQueryRead(r)

\* one request on its own, whatever the tables hold
RequestNext ==
    \/ LoadPurchaseOrder
    \/ LoadSkuSizesMetrics
    \/ InsertOpenOrder
    \/ QueryStep("r1")
    \/ LoopStep("r1")

\* the handler runs in a goroutine of its own and each call of it.Next returns, so a
\* row loop that can take a step takes one
SpecRequestLive == Init /\ [][RequestNext]_vars /\ WF_vars(LoopStep("r1"))


---------------------------------------------------------------------------
(* Vocabulary of the server claims, stated on the tables, the rows each     *)
(* request was handed, and the responses it wrote.                          *)

\* the request's handler has returned
Returned(r) == hpc[r] = "done"

\* the request was answered 200 and nothing else
Answered200(r) == Returned(r) /\ Len(sent[r]) = 1 /\ sent[r][1].status = 200

\* the handlers that end their loop on any error of it.Next
BreakOnAnyError ==
    {PathSkuMetrics, PathSkuMetricsSingle, PathPurchaseOrders, PathPurchaseOrdersGrouped}

\* C11 (as claimed): a request of /sku-metrics, /sku-metrics/{style_code} or
\* /purchase-orders whose iterator failed is answered with a 5xx status only.
C11_NoPartialOnIterError ==
    \A r \in Requests :
        (route[r] \in BreakOnAnyError /\ herr[r] = "iter") =>
            \A i \in 1..Len(sent[r]) : sent[r][i].status \in 500..599

\* C13: a request whose query.Read failed has returned with exactly one response, of
\* status 500 with an error and a details field, the details being the diagnostic
\* message; it holds no iterator and was handed no row.
C13_QueryFailureTerminal ==
    \A r \in Requests :
        herr[r] = "read" =>
            /\ Returned(r)
            /\ Len(sent[r]) = 1
            /\ sent[r][1].status = 500
            /\ DOMAIN sent[r][1].body = {"error", "details"}
            /\ sent[r][1].body.error = "Failed to query BigQuery"
            /\ sent[r][1].body.details = "query error"
            /\ rowIter[r] = {}
            /\ fetched[r] = <<>>

\* witness of C13: with rows in the tables, the query of /all-purchase-orders failed
\* for one request and the query of /sku-metrics/{style_code} for the other
C13_Witness ==
    /\ purchaseOrders # {}
    /\ openOrderRows # EmptyBag
    /\ route["r1"] = PathAllPurchaseOrders /\ herr["r1"] = "read"
    /\ route["r2"] = PathSkuMetricsSingle /\ herr["r2"] = "read"
    /\ sent["r1"][1].status = 500
    /\ sent["r2"][1].status = 500

\* C14 (as claimed): every entry of a 200 answer of /purchase-orders (the handler of
\* src/purchase_orders.go) is an aggregated order, an estimated delivery date with a
\* non-empty item list, and no order id has more entries than one.
C14_AnswerIsAggregated ==
    \A r \in Requests :
        (route[r] = PathPurchaseOrders /\ Answered200(r)) =>
            LET body == sent[r][1].body
            IN  /\ \A k \in DOMAIN body :
                      /\ DOMAIN body[k] = {"EstimatedDeliveryDate", "Items"}
                      /\ Len(body[k].Items) >= 1
                /\ Cardinality(DOMAIN body)
                      <= Cardinality({fetched[r][i].ID : i \in 1..Len(fetched[r])})

\* C18: a response carries Cache-Control: private, max-age=300 exactly when its
\* status is 200; the statuses written are 200, 400, 404 and 500.
C18_CacheOnSuccessOnly ==
    \A r \in Requests :
        \A i \in 1..Len(sent[r]) :
            /\ sent[r][i].status \in {200, 400, 404, 500}
            /\ sent[r][i].status = 200 => sent[r][i].headers = {CacheHeader}
            /\ sent[r][i].status # 200 => sent[r][i].headers = {}

\* witness of C18: one request of /sku-metrics/{style_code} was answered 200 with
\* rows, the other 404
C18_Witness ==
    /\ route["r1"] = PathSkuMetricsSingle
    /\ route["r2"] = PathSkuMetricsSingle
    /\ Answered200("r1")
    /\ Len(sent["r1"][1].body) > 0
    /\ sent["r1"][1].headers = {CacheHeader}
    /\ Returned("r2")
    /\ sent["r2"][1].status = 404
    /\ sent["r2"][1].headers = {}

\* the items of an order that have a product
ItemsWithProduct(o) == SelectSeq(o.items, LAMBDA x : x.product_id # 0)

\* C19: with the result set read to its end, the answer of /all-purchase-orders holds
\* every order of the table that has an item with a product, whatever its delivery
\* date, once, with exactly its items that have a product; no order of the answer has
\* an item of product id 0 or an empty items list.
C19_AllOrdersUnfiltered ==
    \A r \in Requests :
        (route[r] = PathAllPurchaseOrders /\ herr[r] = "done") =>
            /\ Answered200(r)
            /\ LET body == sent[r][1].body
               IN  /\ {body[i] : i \in 1..Len(body)}
                         = {[id |-> o.id, delivery_date |-> o.delivery_date,
                             items |-> ItemsWithProduct(o)]
                            : o \in {x \in purchaseOrders : ItemsWithProduct(x) # <<>>}}
                   /\ \A i, j \in 1..Len(body) : body[i] = body[j] => i = j
                   /\ \A i \in 1..Len(body) :
                         /\ Len(body[i].items) >= 1
                         /\ \A n \in 1..Len(body[i].items) :
                               body[i].items[n].product_id # 0

\* witness of C19: the table holds a past order and an order with an item without
\* product; the answer holds both, the second without that item
C19_Witness ==
    /\ Cardinality(purchaseOrders) = 2
    /\ \E r \in Requests :
          /\ route[r] = PathAllPurchaseOrders
          /\ herr[r] = "done"
          /\ Len(sent[r][1].body) = 2
          /\ \E i \in 1..2 : sent[r][1].body[i].delivery_date = "2024-12-31"
          /\ \E i \in 1..2 :
                /\ sent[r][1].body[i].delivery_date = "2025-02-01"
                /\ Len(sent[r][1].body[i].items) = 1

\* C25: a request of /all-purchase-orders whose iterator failed, after any number of
\* rows, has returned with one response of status 500 that holds an error and a
\* details field and none of the rows; a 200 is written only after iterator.Done, and
\* its body is the rows delivered, each once, in the order of their delivery.
C25_AllOrdersAllOrNothing ==
    \A r \in Requests :
        route[r] = PathAllPurchaseOrders =>
            /\ herr[r] = "iter" =>
                  /\ Returned(r)
                  /\ Len(sent[r]) = 1
                  /\ sent[r][1].status = 500
                  /\ DOMAIN sent[r][1].body = {"error", "details"}
                  /\ sent[r][1].body.error = "Failed to read BigQuery results"
                  /\ sent[r][1].body.details = "read error"
            /\ \A i \in 1..Len(sent[r]) :
                  sent[r][i].status = 200 =>
                      /\ herr[r] = "done"
                      /\ rowIter[r] = {}
                      /\ sent[r][i].body = fetched[r]

\* witness of C25: one request of /all-purchase-orders was handed a row before its
\* iterator failed and is answered 500; the other read both rows and is answered 200
C25_Witness ==
    /\ route["r1"] = PathAllPurchaseOrders
    /\ route["r2"] = PathAllPurchaseOrders
    /\ herr["r1"] = "iter"
    /\ Len(fetched["r1"]) = 1
    /\ sent["r1"][1].status = 500
    /\ herr["r2"] = "done"
    /\ Len(fetched["r2"]) = 2
    /\ sent["r2"][1].status = 200
    /\ sent["r2"][1].body = fetched["r2"]

\* exactly one response has been written for a request that returned, of status 200,
\* 400, 404 or 500, none for a request that has not, and a request whose query.Read
\* or it.Next returned an error or iterator.Done has returned
OneResponse(r) ==
    /\ ~Returned(r) => sent[r] = <<>> /\ herr[r] = "nil"
    /\ Returned(r) =>
          /\ Len(sent[r]) = 1
          /\ sent[r][1].status \in {200, 400, 404, 500}

\* C26: every request that reached a handler returns, for any rows the iterator
\* holds; it has written exactly one response by then, of status 200, 400, 404 or
\* 500, and nothing before; the row loop ends at the first result of it.Next that is
\* not nil.
C26_ExactlyOneResponse ==
    /\ [](\A r \in Requests : OneResponse(r))
    /\ \A r \in Requests : (route[r] # "none") ~> Returned(r)

\* witness of C26: a request of /sku-metrics/{style_code} was handed both rows of the
\* result, then iterator.Done, and has returned with one response
C26_Witness ==
    /\ route["r1"] = PathSkuMetricsSingle
    /\ herr["r1"] = "done"
    /\ Len(fetched["r1"]) = 2
    /\ Returned("r1")
    /\ Len(sent["r1"]) = 1
    /\ sent["r1"][1].status = 200

RECURSIVE GroupAll(_)
\* the orderMap a request builds from the rows it was handed
GroupAll(rows) ==
    IF rows = <<>> THEN <<>>
    ELSE AddToOrderMap(GroupAll(SubSeq(rows, 1, Len(rows) - 1)), rows[Len(rows)])

\* the responses a request of the given route writes when it runs alone, is handed
\* rows and ends with error e
AloneAnswers(path, p, rows, e) ==
    IF e = "read" THEN {QueryFailure("query error")}
    ELSE IF e = "nil" THEN {Failure(400, [error |-> "SKU ID is required"])}
    ELSE IF path = PathSkuMetrics THEN {Success(rows)}
    ELSE IF path = PathPurchaseOrders
         THEN {Success([i \in 1..Len(rows) |-> RowAsMap(rows[i])])}
    ELSE IF path = PathPurchaseOrdersGrouped
         THEN {Success(response) : response \in Responses(GroupAll(rows))}
    ELSE IF path = PathAllPurchaseOrders
         THEN {IF e = "done" THEN Success(rows) ELSE ReadFailure("read error")}
    ELSE {SingleAnswer(p, rows)}

\* C20: the query-client handle stays the one main assigned, and a request that has
\* returned wrote the one response it writes when run alone on the rows it was
\* handed, whatever the other requests did in between.
C20_RequestIsolation ==
    /\ bqClient = "client"
    /\ \A r \in Requests :
          Returned(r) =>
              /\ Len(sent[r]) = 1
              /\ sent[r][1] \in AloneAnswers(route[r], param[r], fetched[r], herr[r])

\* witness of C20: two requests of the same route ran interleaved, were handed
\* different numbers of rows, and each was answered with its own rows
C20_Witness ==
    /\ route["r1"] = PathSkuMetrics
    /\ route["r2"] = PathSkuMetrics
    /\ Answered200("r1")
    /\ Answered200("r2")
    /\ Len(fetched["r1"]) = 2
    /\ Len(fetched["r2"]) = 1
    /\ sent["r1"][1].body = fetched["r1"]
    /\ sent["r2"][1].body = fetched["r2"]

---------------------------------------------------------------------------
(* The bearer-token middleware of src/main.go (184-250) and the routes       *)
(* behind it (262-269).                                                      *)

\* the values API_TOKEN has when the server starts: not configured, or a secret
ApiTokens == {"", "s3cret"}

\* the paths of the registered routes
AuthPaths == {"/", "/purchase-orders", "/all-purchase-orders", "/sku-metrics",
              "/sku-metrics/ABC123456"}

\* the text a client may put behind "Bearer "
TokenTexts == {"", "s3cret", "wrong", "s3cret "}

\* Authorization headers: none, the scheme with each token text, the scheme without
\* its blank, another scheme, the scheme in lower case, and a bare token
AuthHeaders ==
    {"Bearer " \o t : t \in TokenTexts}
    \cup {"", "Bearer", "Basic s3cret", "bearer s3cret", "s3cret"}

\* c.Next(): the request goes on to the route handler
PassOn == [next |-> TRUE, status |-> 0, body |-> <<>>]

\* c.AbortWithStatusJSON(status, gin.H{"error": ..., "message": ...})
Abort(status, error, message) ==
    [next |-> FALSE, status |-> status, body |-> [error |-> error, message |-> message]]

\* mutant of AuthDecision: the check of an empty API_TOKEN is left out
AuthDecisionWithoutConfigCheck(path, header, validToken) ==
    IF path = "/" THEN PassOn
    ELSE IF header = ""
    THEN Abort(401, "Unauthorized",
               "Bearer token required. Use: Authorization: Bearer YOUR_TOKEN")
    ELSE IF Len(header) < 7 \/ SubSeq(header, 1, 7) # "Bearer "
    THEN Abort(401, "Unauthorized",
               "Invalid Authorization format. Use: Authorization: Bearer YOUR_TOKEN")
    ELSE LET token == SubSeq(header, 8, Len(header))
         IN  IF token # validToken
             THEN Abort(401, "Unauthorized", "Invalid bearer token")
             ELSE PassOn

\* mutant of AuthDecision: API_TOKEN is checked before the header
AuthDecisionConfigFirst(path, header, validToken) ==
    IF path = "/" THEN PassOn
    ELSE IF validToken = ""
    THEN Abort(500, "Server configuration error", "API token not configured")
    ELSE IF header = ""
    THEN Abort(401, "Unauthorized",
               "Bearer token required. Use: Authorization: Bearer YOUR_TOKEN")
    ELSE IF Len(header) < 7 \/ SubSeq(header, 1, 7) # "Bearer "
    THEN Abort(401, "Unauthorized",
               "Invalid Authorization format. Use: Authorization: Bearer YOUR_TOKEN")
    ELSE LET token == SubSeq(header, 8, Len(header))
         IN  IF token # validToken
             THEN Abort(401, "Unauthorized", "Invalid bearer token")
             ELSE PassOn

\* lines 185-249: what the middleware does with a request
AuthDecision(path, header, validToken) ==
    IF path = "/" THEN PassOn
    ELSE IF header = ""
    THEN Abort(401, "Unauthorized",
               "Bearer token required. Use: Authorization: Bearer YOUR_TOKEN")
    ELSE IF Len(header) < 7 \/ SubSeq(header, 1, 7) # "Bearer "
    THEN Abort(401, "Unauthorized",
               "Invalid Authorization format. Use: Authorization: Bearer YOUR_TOKEN")
    ELSE LET token == SubSeq(header, 8, Len(header))
         IN  IF validToken = ""
             THEN Abort(500, "Server configuration error", "API token not configured")
             ELSE IF token # validToken
             THEN Abort(401, "Unauthorized", "Invalid bearer token")
             ELSE PassOn

\* lines 150-183: the server starts with the API_TOKEN of its environment
AuthServe ==
    /\ aStage = "boot"
    /\ \E t \in ApiTokens : apiToken' = t
    /\ aStage' = "none"
    /\ UNCHANGED <<aPath, authHeader, aResp, handled>>
    /\ UNCHANGED nonAuthVars

\* a request arrives
AuthArrive ==
    /\ aStage = "none"
    /\ \E path \in AuthPaths : aPath' = path
    /\ \E header \in AuthHeaders : authHeader' = header
    /\ aStage' = "arrived"
    /\ UNCHANGED <<apiToken, aResp, handled>>
    /\ UNCHANGED nonAuthVars

\* lines 185-249: the middleware aborts the request with a response, or passes it on
AuthMiddleware ==
    /\ aStage = "arrived"
    /\ LET d == AuthDecision(aPath, authHeader, apiToken)
       IN  /\ aStage' = IF d.next THEN "handler" ELSE "aborted"
           /\ aResp' = IF d.next THEN aResp ELSE Response(d.status, d.body, {})
    /\ UNCHANGED <<apiToken, aPath, authHeader, handled>>
    /\ UNCHANGED nonAuthVars

\* lines 262-264: the handler of "/"
AuthRootHandler ==
    /\ aStage = "handler"
    /\ aPath = "/"
    /\ handled' = TRUE
    /\ aResp' = Response(200, [message |-> "Server is running"], {})
    /\ aStage' = "done"
    /\ UNCHANGED <<apiToken, aPath, authHeader>>
    /\ UNCHANGED nonAuthVars

\* lines 266-269: a handler that queries the warehouse is entered
AuthQueryHandler ==
    /\ aStage = "handler"
    /\ aPath # "/"
    /\ handled' = TRUE
    /\ aStage' = "done"
    /\ UNCHANGED <<apiToken, aPath, authHeader, aResp>>
    /\ UNCHANGED nonAuthVars

AuthNext ==
    \/ AuthServe
    \/ AuthArrive
    \/ AuthMiddleware
    \/ AuthRootHandler
    \/ AuthQueryHandler

SpecAuth == Init /\ [][AuthNext]_vars

\* the request has passed the middleware
PassedAuth == aStage \in {"handler", "done"}

\* C27: a request of a path other than "/" gets past the middleware, and its handler
\* runs, only with API_TOKEN not empty and the Authorization header "Bearer " followed
\* by API_TOKEN; an aborted request never reaches a handler; a request of "/" is never
\* aborted; the header "Bearer " with no token is never accepted.
C27_BearerGate ==
    /\ ((PassedAuth \/ handled) /\ aPath # "/") =>
          /\ apiToken # ""
          /\ authHeader = "Bearer " \o apiToken
    /\ aStage = "aborted" => ~handled /\ aPath # "/"
    /\ handled => PassedAuth
    /\ (aPath # "/" /\ authHeader = "Bearer ") => ~PassedAuth /\ ~handled

\* witness of C27: the handler of /sku-metrics has run for the header "Bearer s3cret"
C27_Witness ==
    /\ aStage = "done"
    /\ handled
    /\ aPath = "/sku-metrics"
    /\ apiToken = "s3cret"
    /\ authHeader = "Bearer s3cret"

\* the header has the scheme "Bearer " in front
HasBearerScheme(header) == \E t \in TokenTexts : header = "Bearer " \o t

\* the middleware has dealt with the request
AuthDecided == aStage \in {"aborted", "handler", "done"}

\* C28: for a path other than "/", a missing header and a header without the scheme
\* "Bearer " are answered 401 whether or not API_TOKEN is configured; 500 "Server
\* configuration error" is answered exactly for a header with the scheme when
\* API_TOKEN is empty; a header with the scheme and another token than a configured
\* API_TOKEN is answered 401; the message is that of the first check that fails.
C28_AuthStatusOrder ==
    (AuthDecided /\ aPath # "/") =>
        /\ authHeader = "" =>
              /\ aStage = "aborted"
              /\ aResp.status = 401
              /\ aResp.body.message
                    = "Bearer token required. Use: Authorization: Bearer YOUR_TOKEN"
        /\ (authHeader # "" /\ ~HasBearerScheme(authHeader)) =>
              /\ aStage = "aborted"
              /\ aResp.status = 401
              /\ aResp.body.message
                    = "Invalid Authorization format. Use: Authorization: Bearer YOUR_TOKEN"
        /\ (aStage = "aborted" /\ aResp.status = 500)
              <=> (HasBearerScheme(authHeader) /\ apiToken = "")
        /\ (aStage = "aborted" /\ aResp.status = 500) =>
              /\ aResp.body.error = "Server configuration error"
              /\ aResp.body.message = "API token not configured"
        /\ (HasBearerScheme(authHeader) /\ apiToken # ""
              /\ authHeader # "Bearer " \o apiToken) =>
              /\ aStage = "aborted"
              /\ aResp.status = 401
              /\ aResp.body.message = "Invalid bearer token"
        /\ aStage = "aborted" => aResp.status \in {401, 500}

\* witness of C28: without API_TOKEN, a request of /purchase-orders without header is
\* answered 401
C28_Witness ==
    /\ aStage = "aborted"
    /\ aPath = "/purchase-orders"
    /\ apiToken = ""
    /\ authHeader = ""
    /\ aResp.status = 401

---------------------------------------------------------------------------
(* loadEnvFile of src/main.go (122-148), called first thing by main.        *)

\* lines of a file .env: blank lines, comments, a line without "=", assignments
\* with and without blanks around key and value, an empty value, a value that
\* holds "=", an empty key
EnvLines ==
    {"", "  ", "# API_TOKEN=zzz", "  #ENV=dev", "API_TOKEN", "API_TOKEN=abc",
     "API_TOKEN=xyz", " API_TOKEN = abc ", "API_TOKEN=", "API_TOKEN=a=b",
     "ENV=production", "=abc"}

\* the values a variable may have in the environment the process is started with
PresetValues == {"preset", "development"}

\* unicode.IsSpace for the characters of the lines above
IsSpaceChar(c) == c \in {" ", "\t"}

RECURSIVE TrimLeft(_)
TrimLeft(s) ==
    IF Len(s) > 0 /\ IsSpaceChar(CharAt(s, 1)) THEN TrimLeft(SubSeq(s, 2, Len(s))) ELSE s

RECURSIVE TrimRight(_)
TrimRight(s) ==
    IF Len(s) > 0 /\ IsSpaceChar(CharAt(s, Len(s)))
    THEN TrimRight(SubSeq(s, 1, Len(s) - 1))
    ELSE s

\* strings.TrimSpace
TrimSpace(s) == TrimRight(TrimLeft(s))

\* strings.HasPrefix
HasPrefix(s, prefix) == Len(s) >= Len(prefix) /\ SubSeq(s, 1, Len(prefix)) = prefix

\* strings.Index(s, "="): the position of the first "=", 0 when there is none
IndexOfEquals(s) ==
    IF \E i \in 1..Len(s) : CharAt(s, i) = "="
    THEN CHOOSE i \in 1..Len(s) :
            CharAt(s, i) = "=" /\ \A j \in 1..(i - 1) : CharAt(s, j) # "="
    ELSE 0

\* strings.SplitN(line, "=", 2)
SplitN2(line) ==
    LET i == IndexOfEquals(line)
    IN  IF i = 0 THEN <<line>>
        ELSE <<SubSeq(line, 1, i - 1), SubSeq(line, i + 1, Len(line))>>

\* os.Getenv(key): "" for a variable that is unset
Getenv(env, key) == IF key \in DOMAIN env THEN env[key] ELSE ""

\* os.Setenv(key, value): fails with EINVAL, and sets nothing, for an empty key
Setenv(env, key, value) ==
    IF key = "" THEN env
    ELSE [k \in DOMAIN env \cup {key} |-> IF k = key THEN value ELSE env[k]]

\* mutant of ApplyLine: the value of the file is set whatever the environment holds
ApplyLineOverriding(env, raw) ==
    LET line == TrimSpace(raw)
    IN  IF line = "" \/ HasPrefix(line, "#") THEN env
        ELSE LET parts == SplitN2(line)
             IN  IF Len(parts) = 2
                 THEN Setenv(env, TrimSpace(parts[1]), TrimSpace(parts[2]))
                 ELSE env

\* lines 131-146: one turn of the scanner loop
ApplyLine(env, raw) ==
    LET line == TrimSpace(raw)
    IN  IF line = "" \/ HasPrefix(line, "#") THEN env
        ELSE LET parts == SplitN2(line)
             IN  IF Len(parts) = 2
                 THEN LET key == TrimSpace(parts[1])
                          value == TrimSpace(parts[2])
                      IN  IF Getenv(env, key) = "" THEN Setenv(env, key, value) ELSE env
                 ELSE env

RECURSIVE ScanLines(_, _)
\* lines 130-147: the loop over the lines of the file, first line first
ScanLines(env, lines) ==
    IF lines = <<>> THEN env
    ELSE ScanLines(ApplyLine(env, Head(lines)), Tail(lines))

\* the process is started with variable k set
PresetEnv ==
    /\ lpc = "setup"
    /\ \E k \in EnvNames, v \in PresetValues :
          /\ environ[k] = ""
          /\ environ' = [environ EXCEPT ![k] = v]
    /\ UNCHANGED <<envBefore, dotenvExists, dotenv, lpc>>
    /\ UNCHANGED nonEnvVars

\* the working directory holds a file .env
CreateDotenv ==
    /\ lpc = "setup"
    /\ ~dotenvExists
    /\ dotenvExists' = TRUE
    /\ UNCHANGED <<environ, envBefore, dotenv, lpc>>
    /\ UNCHANGED nonEnvVars

\* the file has one more line
WriteDotenvLine ==
    /\ lpc = "setup"
    /\ dotenvExists
    /\ Len(dotenv) < MaxLines
    /\ \E line \in EnvLines : dotenv' = Append(dotenv, line)
    /\ UNCHANGED <<environ, envBefore, dotenvExists, lpc>>
    /\ UNCHANGED nonEnvVars

\* lines 123-127: os.Open(".env") fails and loadEnvFile returns
LoadEnvNoFile ==
    /\ lpc = "setup"
    /\ ~dotenvExists
    /\ envBefore' = environ
    /\ lpc' = "loaded"
    /\ UNCHANGED <<environ, dotenvExists, dotenv>>
    /\ UNCHANGED nonEnvVars

\* lines 123-147: the file is opened and scanned to its end
LoadEnvFile ==
    /\ lpc = "setup"
    /\ dotenvExists
    /\ envBefore' = environ
    /\ environ' = ScanLines(environ, dotenv)
    /\ lpc' = "loaded"
    /\ UNCHANGED <<dotenvExists, dotenv>>
    /\ UNCHANGED nonEnvVars

EnvNext ==
    \/ PresetEnv
    \/ CreateDotenv
    \/ WriteDotenvLine
    \/ LoadEnvNoFile
    \/ LoadEnvFile

SpecEnv == Init /\ [][EnvNext]_vars

\* what each line of EnvLines that is a KEY=VALUE line assigns: <<line, key, value>>
Assignments ==
    {<<"API_TOKEN=abc", "API_TOKEN", "abc">>,
     <<"API_TOKEN=xyz", "API_TOKEN", "xyz">>,
     <<" API_TOKEN = abc ", "API_TOKEN", "abc">>,
     <<"API_TOKEN=", "API_TOKEN", "">>,
     <<"API_TOKEN=a=b", "API_TOKEN", "a=b">>,
     <<"ENV=production", "ENV", "production">>,
     <<"=abc", "", "abc">>}

\* the positions of the KEY=VALUE lines of the file for variable k
AssignmentLines(k) ==
    {i \in 1..Len(dotenv) : \E a \in Assignments : a[1] = dotenv[i] /\ a[2] = k}

\* the value the line at position i assigns
AssignedValue(i) == (CHOOSE a \in Assignments : a[1] = dotenv[i])[3]

\* the first KEY=VALUE line of the file for variable k
FirstAssignment(k) == CHOOSE i \in AssignmentLines(k) : \A j \in AssignmentLines(k) : i <= j

\* C29: after loadEnvFile a variable that had a non-empty value keeps it; a variable
\* that was unset or empty has the value of its first KEY=VALUE line when that value
\* is not empty, and stays empty when the file has no KEY=VALUE line for it; no
\* other variable appears; without a file .env nothing changes.
C29_EnvFileNeverOverrides ==
    lpc = "loaded" =>
        /\ DOMAIN environ = EnvNames
        /\ \A k \in EnvNames :
              /\ envBefore[k] # "" => environ[k] = envBefore[k]
              /\ (envBefore[k] = "" /\ AssignmentLines(k) # {}
                    /\ AssignedValue(FirstAssignment(k)) # "")
                    => environ[k] = AssignedValue(FirstAssignment(k))
              /\ (envBefore[k] = "" /\ AssignmentLines(k) = {}) => environ[k] = ""
        /\ ~dotenvExists => environ = envBefore

\* witness of C29: ENV was set before the start and API_TOKEN was not; the file
\* assigns API_TOKEN twice and the value of the first line, trimmed, remains
C29_Witness ==
    /\ lpc = "loaded"
    /\ envBefore["ENV"] = "development"
    /\ envBefore["API_TOKEN"] = ""
    /\ dotenv = <<" API_TOKEN = abc ", "API_TOKEN=xyz">>
    /\ environ["API_TOKEN"] = "abc"
    /\ environ["ENV"] = "development"

---------------------------------------------------------------------------
(* The origin gate of src/unnamed/part_002 (54-123): installed when ENV is   *)
(* "production", in front of the CORS middleware and the routes (125-131).   *)

\* lines 57-61
allowedOrigins ==
    <<"https://etiql-agent.milhos.tech",
      "https://etiql-checkout-7f00ab87268f.herokuapp.com",
      "https://etiql-checkout-staging-a62191cd7dc2.herokuapp.com">>

\* the values of ENV
EnvModes == {"production", "Production", "development", ""}

\* the paths of the registered routes
GatePaths == {"/", "/purchase-orders", "/all-purchase-orders", "/sku-metrics"}

\* Origin headers: none, the allowed origins, another scheme, an allowed origin
\* with more behind it, a foreign origin
OriginHeaders ==
    {"", allowedOrigins[1], allowedOrigins[2], allowedOrigins[3],
     "http://etiql-agent.milhos.tech",
     "https://etiql-agent.milhos.tech.evil.example",
     "https://evil.example"}

\* Referer headers: none, pages of allowed origins, an allowed origin itself, a
\* host that starts like one, a foreign page that names one, a cut-off origin
RefererHeaders ==
    {"", "https://etiql-agent.milhos.tech/orders?page=2",
     "https://etiql-checkout-7f00ab87268f.herokuapp.com/cart",
     "https://etiql-checkout-staging-a62191cd7dc2.herokuapp.com",
     "https://etiql-agent.milhos.tech.evil.example/",
     "https://evil.example/?from=https://etiql-agent.milhos.tech",
     "https://etiql-agent.milhos"}

\* lines 78-85: origin == allowedOrigin for one of the allowed origins
OriginAllowed(o) == o # "" /\ \E i \in 1..Len(allowedOrigins) : o = allowedOrigins[i]

\* lines 88-95: referer[:len(allowedOrigin)] == allowedOrigin for one of them
RefererAllowed(ref) ==
    /\ ref # ""
    /\ \E i \in 1..Len(allowedOrigins) :
          /\ Len(ref) >= Len(allowedOrigins[i])
          /\ SubSeq(ref, 1, Len(allowedOrigins[i])) = allowedOrigins[i]

\* c.AbortWithStatusJSON(http.StatusForbidden, ...)
Forbidden(body) == [next |-> FALSE, status |-> 403, body |-> body]

\* mutant of GateDecision: a request without Origin and Referer is let through
GateDecisionAllowingBare(o, ref) ==
    IF o = "" /\ ref = "" THEN PassOn
    ELSE IF ~(OriginAllowed(o) \/ RefererAllowed(ref))
    THEN Forbidden([error |-> "Access denied: Invalid origin", origin |-> o, referer |-> ref])
    ELSE PassOn

\* lines 64-108: what the gate does with a request
GateDecision(o, ref) ==
    IF o = "" /\ ref = ""
    THEN Forbidden([error |-> "Access denied: Origin required"])
    ELSE IF ~(OriginAllowed(o) \/ RefererAllowed(ref))
    THEN Forbidden([error |-> "Access denied: Invalid origin", origin |-> o, referer |-> ref])
    ELSE PassOn

\* lines 55, 119: main reads ENV and installs its middleware
GateServe ==
    /\ gStage = "boot"
    /\ \E e \in EnvModes : envMode' = e
    /\ gStage' = "none"
    /\ UNCHANGED <<gPath, origin, referer, gResp, gHandled>>
    /\ UNCHANGED nonGateVars

\* a request arrives
GateArrive ==
    /\ gStage = "none"
    /\ \E path \in GatePaths : gPath' = path
    /\ \E o \in OriginHeaders : origin' = o
    /\ \E ref \in RefererHeaders : referer' = ref
    /\ gStage' = "arrived"
    /\ UNCHANGED <<envMode, gResp, gHandled>>
    /\ UNCHANGED nonGateVars

\* lines 64-108: in production the gate aborts the request or passes it on
GateMiddleware ==
    /\ gStage = "arrived"
    /\ envMode = "production"
    /\ LET d == GateDecision(origin, referer)
       IN  /\ gStage' = IF d.next THEN "cors" ELSE "aborted"
           /\ gResp' = IF d.next THEN gResp ELSE Response(d.status, d.body, {})
    /\ UNCHANGED <<envMode, gPath, origin, referer, gHandled>>
    /\ UNCHANGED nonGateVars

\* lines 119-123: outside production there is no gate
GateNotInstalled ==
    /\ gStage = "arrived"
    /\ envMode # "production"
    /\ gStage' = "cors"
    /\ UNCHANGED <<envMode, gPath, origin, referer, gResp, gHandled>>
    /\ UNCHANGED nonGateVars

\* lines 111-117, 121: the CORS middleware passes the request on
CorsPasses ==
    /\ gStage = "cors"
    /\ gStage' = "handler"
    /\ UNCHANGED <<envMode, gPath, origin, referer, gResp, gHandled>>
    /\ UNCHANGED nonGateVars

\* lines 111-117: in production the CORS middleware may turn down an Origin that is
\* not among its AllowOrigins
CorsRejects ==
    /\ gStage = "cors"
    /\ envMode = "production"
    /\ origin # ""
    /\ ~OriginAllowed(origin)
    /\ gResp' = Response(403, <<>>, {})
    /\ gStage' = "rejected"
    /\ UNCHANGED <<envMode, gPath, origin, referer, gHandled>>
    /\ UNCHANGED nonGateVars

\* lines 125-131: the route handler runs
GateHandler ==
    /\ gStage = "handler"
    /\ gHandled' = TRUE
    /\ gResp' = IF gPath = "/"
                THEN Response(200, [message |-> "Server is running"], {})
                ELSE gResp
    /\ gStage' = "done"
    /\ UNCHANGED <<envMode, gPath, origin, referer>>
    /\ UNCHANGED nonGateVars

GateNext ==
    \/ GateServe
    \/ GateArrive
    \/ GateMiddleware
    \/ GateNotInstalled
    \/ CorsPasses
    \/ CorsRejects
    \/ GateHandler

SpecGate == Init /\ [][GateNext]_vars

\* text s begins with text a
BeginsWith(s, a) == \E n \in 0..Len(s) : SubSeq(s, 1, n) = a

\* the request names an allowed origin: its Origin is one, or its Referer begins
\* with one
NamesAllowedOrigin ==
    \E a \in {allowedOrigins[i] : i \in 1..Len(allowedOrigins)} :
        origin = a \/ BeginsWith(referer, a)

\* the request is past the gate
PastGate == gStage \in {"cors", "rejected", "handler", "done"}

\* the gate has dealt with the request
GateDecided == gStage = "aborted" \/ PastGate

\* C30: with ENV "production" a request gets past the gate, and to a handler, only
\* if its Origin is one of the three allowed origins or its Referer begins with one;
\* every other request, "/" included, is answered 403, "Origin required" when both
\* headers are empty; with any other ENV the gate rejects nothing.
C30_OriginGate ==
    /\ (envMode = "production" /\ GateDecided) =>
          /\ (PastGate \/ gHandled) => NamesAllowedOrigin
          /\ ~NamesAllowedOrigin =>
                /\ gStage = "aborted"
                /\ gResp.status = 403
                /\ ~gHandled
          /\ (origin = "" /\ referer = "") =>
                /\ gStage = "aborted"
                /\ gResp.body = [error |-> "Access denied: Origin required"]
          /\ (gStage = "aborted" /\ ~(origin = "" /\ referer = "")) =>
                gResp.body = [error |-> "Access denied: Invalid origin",
                              origin |-> origin, referer |-> referer]
    /\ envMode # "production" => gStage # "aborted"
    /\ gHandled => gStage = "done"

\* witness of C30: in production a request of "/" without Origin and Referer is
\* answered 403
C30_Witness ==
    /\ envMode = "production"
    /\ gPath = "/"
    /\ origin = ""
    /\ referer = ""
    /\ gStage = "aborted"
    /\ gResp.status = 403
    /\ ~gHandled

=============================================================================
